---- MODULE Spec2Model ----
(***************************************************************************)
(* Model of the numeric core of the Surge python SDK:                      *)
(*   surge/tools/utility.py   calculate_funding_rates                      *)
(*   surge/types.py           AccountOverview.from_positions_and_collaterals*)
(*   surge/types.py           the from_json decoders                       *)
(*                                                                         *)
(* Numbers.  The code computes on Python floats.  The model computes on    *)
(* exact rationals <<n, d>> (d > 0, lowest terms), i.e. on the real values *)
(* the floats approximate; binary rounding is not modelled.  A Python      *)
(* exception raised by a division (ZeroDivisionError) is modelled by the   *)
(* value NaR, which every later operation propagates, and which turns the  *)
(* outcome of the enclosing call into a raised error.                      *)
(***************************************************************************)
EXTENDS Integers, Sequences, FiniteSets, TLC

VARIABLES funding_args, funding_ret, overview_args, overview_ret,
          decode_args, decode_ret, write, gateway, query

vars == <<funding_args, funding_ret, overview_args, overview_ret,
          decode_args, decode_ret, write, gateway, query>>

(***************************************************************************)
(* Bounds of the explored input space.                                     *)
(***************************************************************************)
MaxOI == 2
MaxPrice == 2
MaxSkew == 1
MaxRaw == 3
MaxLen == 2
MaxBalance == 1

(***************************************************************************)
(* Exact rational arithmetic.                                              *)
(***************************************************************************)
Abs(x) == IF x < 0 THEN -x ELSE x

RECURSIVE GCD(_, _)
GCD(a, b) == IF b = 0 THEN a ELSE GCD(b, a % b)

Norm(n, d) ==
    LET g == GCD(Abs(n), Abs(d))
        s == IF d < 0 THEN -1 ELSE 1
    IN  <<s * (n \div g), s * (d \div g)>>

R(n) == <<n, 1>>
Frac(n, d) == Norm(n, d)
Zero == R(0)
NaR == <<0, 0>>
IsNum(a) == a[2] # 0

RNeg(a) == IF IsNum(a) THEN <<-a[1], a[2]>> ELSE NaR
RAbs(a) == IF IsNum(a) THEN <<Abs(a[1]), a[2]>> ELSE NaR

RAdd(a, b) ==
    IF IsNum(a) /\ IsNum(b)
    THEN LET g == GCD(a[2], b[2])
         IN  Norm(a[1] * (b[2] \div g) + b[1] * (a[2] \div g), (a[2] \div g) * b[2])
    ELSE NaR

RSub(a, b) == RAdd(a, RNeg(b))

RMul(a, b) ==
    IF IsNum(a) /\ IsNum(b)
    THEN LET g1 == GCD(Abs(a[1]), b[2])
             g2 == GCD(Abs(b[1]), a[2])
         IN  Norm((a[1] \div g1) * (b[1] \div g2), (a[2] \div g2) * (b[2] \div g1))
    ELSE NaR

\* Python's a / b: raises ZeroDivisionError when b == 0.
RDiv(a, b) ==
    IF IsNum(a) /\ IsNum(b) /\ b[1] # 0
    THEN RMul(a, Norm(b[2], b[1]))
    ELSE NaR

RLt(a, b) == a[1] * b[2] < b[1] * a[2]
RLe(a, b) == a[1] * b[2] <= b[1] * a[2]

\* Python's builtins min(a, b) and max(a, b): the first argument wins a tie.
RMin(a, b) == IF RLt(b, a) THEN b ELSE a
RMax(a, b) == IF RLt(a, b) THEN b ELSE a

(***************************************************************************)
(* surge/tools/utility.py: calculate_funding_rates                         *)
(***************************************************************************)
DaysPerYear == 365

\* line 41: min(max(funding_2_raw, funding_2_min), funding_2_max)
clamp_asymmetric(funding_2_raw, funding_2_min, funding_2_max) ==
    RMin(funding_2_raw, funding_2_max)

clamp_absent(funding_2_raw, funding_2_min, funding_2_max) == funding_2_raw

clamp(funding_2_raw, funding_2_min, funding_2_max) ==
    RMin(RMax(funding_2_raw, funding_2_min), funding_2_max)

\* line 44: if oi_long == 0 or oi_short == 0
zero_open_interest_both(oi_long, oi_short) == oi_long = Zero /\ oi_short = Zero

zero_open_interest_long_only(oi_long, oi_short) == oi_long = Zero

zero_open_interest(oi_long, oi_short) == oi_long = Zero \/ oi_short = Zero

\* line 52: if funding > 0
long_pays_inverted(funding) == RLt(funding, Zero)

long_pays(funding) == RLt(Zero, funding)

\* lines 54, 59: funding_share = <paying side's funding> * pair_config['funding_share']
funding_share_whole(paid, pair_config) == paid

funding_share_amount(paid, pair_config) == RMul(paid, pair_config.funding_share)

\* line 73: funding_pool += funding_share
funding_pool_without_share(funding_pool, funding_share) == funding_pool

funding_pool_total(funding_pool, funding_share) == RAdd(funding_pool, funding_share)

\* lines 82, 84, 85: <rate> / 365
per_day_360(rate) == RDiv(rate, R(360))

per_day(rate) == RDiv(rate, R(DaysPerYear))

\* Line 40: funding_2_min = -oi_short * price
funding_2_min_unsigned(oi_short, price) == RMul(oi_short, price)

funding_2_min_of(oi_short, price) == RMul(RNeg(oi_short), price)

\* Lines 55 and 59: what the paying side pays less the share carved out to the
\* pool is what the other side receives.
received_in_full(paid, funding_share) == paid

received(paid, funding_share) == RSub(paid, funding_share)

\* The local variables of calculate_funding_rates when it reaches its return
\* statement (line 75).  Locals that the taken branch never assigns are absent.
funding_locals(oi_long, oi_short, skew, funding_2_raw, price, pair_config) ==
    LET funding_1 == RMul(skew, pair_config.funding_1)
        funding_2_max == RMul(oi_long, price)
        funding_2_min == funding_2_min_of(oi_short, price)
        funding_2 == RMul(clamp(funding_2_raw, funding_2_min, funding_2_max),
                          pair_config.funding_2)
        base == [funding_1 |-> funding_1, funding_2 |-> funding_2,
                 funding_2_raw |-> funding_2_raw,
                 funding_2_max |-> funding_2_max, funding_2_min |-> funding_2_min]
    IN  IF zero_open_interest(oi_long, oi_short)
        THEN base @@ [branch |-> "zero_oi",
                      funding_long |-> Zero, funding_short |-> Zero,
                      funding_share |-> Zero, funding_pool |-> Zero]
        ELSE LET funding == RAdd(funding_1, funding_2)
                 pays == long_pays(funding)
                 paid == IF pays THEN funding ELSE RNeg(funding)
                 funding_share == funding_share_amount(paid, pair_config)
                 funding_long_index ==
                     IF pays THEN RDiv(paid, oi_long)
                             ELSE RDiv(RNeg(received(paid, funding_share)), oi_long)
                 funding_short_index ==
                     IF pays THEN RDiv(RNeg(received(paid, funding_share)), oi_short)
                             ELSE RDiv(paid, oi_short)
                 oi_net == RAdd(oi_long, oi_short)
                 funding_pool_0 == RMul(RMul(oi_net, price), pair_config.funding_pool_0)
                 funding_pool_1 == RMul(RAbs(skew), pair_config.funding_pool_1)
                 funding_pool == RAdd(funding_pool_0, funding_pool_1)
                 funding_pool_index == RDiv(funding_pool, oi_net)
             IN  base @@ [branch |-> IF pays THEN "long_pays" ELSE "short_pays",
                          funding |-> funding,
                          funding_share |-> funding_share,
                          funding_long_index |-> funding_long_index,
                          funding_short_index |-> funding_short_index,
                          oi_net |-> oi_net,
                          funding_pool_0 |-> funding_pool_0,
                          funding_pool_1 |-> funding_pool_1,
                          funding_pool_index |-> funding_pool_index,
                          funding_long |->
                              RDiv(RAdd(funding_long_index, funding_pool_index), price),
                          funding_short |->
                              RDiv(RAdd(funding_short_index, funding_pool_index), price),
                          funding_pool |-> funding_pool_total(funding_pool, funding_share)]

\* TRUE iff some division executed on the way to the return statement raised.
funding_raises(l) ==
    \/ ~IsNum(l.funding_long)
    \/ ~IsNum(l.funding_short)
    \/ ~IsNum(l.funding_pool)

\* The outcome of one call: the returned dict (lines 75-86) together with the
\* locals it was built from, or the error raised by a division.
calculate_funding_rates(oi_long, oi_short, skew, funding_2_raw, price, pair_config) ==
    LET l == funding_locals(oi_long, oi_short, skew, funding_2_raw, price, pair_config)
    IN  IF funding_raises(l)
        THEN [status |-> "raised", error |-> "ZeroDivisionError"]
        ELSE [status |-> "returned",
              locals |-> l,
              value |-> [funding_1 |-> l.funding_1,
                         funding_2 |-> l.funding_2,
                         funding_2_raw |-> l.funding_2_raw,
                         funding_2_max |-> l.funding_2_max,
                         funding_2_min |-> l.funding_2_min,
                         funding_long_apr |-> l.funding_long,
                         funding_long_24h |-> per_day(l.funding_long),
                         funding_short_apr |-> l.funding_short,
                         funding_short_24h |-> per_day(l.funding_short),
                         funding_pool_24h |-> per_day(l.funding_pool)]]

NotCalled == [status |-> "not_called"]

\* No write operation under way, and a gateway that has received no request.
NoWrite == [pc |-> "idle"]
NoGateway == [requests |-> <<>>, response |-> [status |-> 0]]

\* No read operation under way.
NoQuery == [pc |-> "idle"]

\* Input space of calculate_funding_rates.
OIValues == {R(5 * k) : k \in 0..MaxOI}
PriceValues == {R(50 * k) : k \in 0..MaxPrice}
SkewValues == {R(500 * k) : k \in (-MaxSkew)..MaxSkew}
RawValues == {R(500 * k) : k \in (-MaxRaw)..MaxRaw}

PairConfigs ==
    { [funding_1 |-> Frac(1, 10000), funding_2 |-> Frac(1, 20000),
       funding_pool_0 |-> Zero, funding_pool_1 |-> Zero,
       funding_share |-> Frac(1, 10)],
      [funding_1 |-> Frac(1, 10000), funding_2 |-> Frac(1, 20000),
       funding_pool_0 |-> Frac(1, 1000), funding_pool_1 |-> Frac(1, 2000),
       funding_share |-> Frac(1, 10)],
      [funding_1 |-> Frac(1, 5000), funding_2 |-> Zero,
       funding_pool_0 |-> Frac(1, 1000), funding_pool_1 |-> Zero,
       funding_share |-> Frac(1, 4)],
      [funding_1 |-> Zero, funding_2 |-> Frac(1, 10000),
       funding_pool_0 |-> Zero, funding_pool_1 |-> Frac(1, 2000),
       funding_share |-> Zero] }

FundingArgs ==
    [oi_long : OIValues, oi_short : OIValues, skew : SkewValues,
     funding_2_raw : RawValues, price : PriceValues, pair_config : PairConfigs]

(***************************************************************************)
(* surge/types.py: AccountOverview.from_positions_and_collaterals          *)
(***************************************************************************)
\* Python's builtin sum(): starts from 0 and adds the items left to right.
RECURSIVE sum(_)
sum(items) ==
    IF Len(items) = 0
    THEN Zero
    ELSE RAdd(sum(SubSeq(items, 1, Len(items) - 1)), items[Len(items)])

\* The generator expression (x[key] for x in items).
field_of(items, key) == [i \in 1..Len(items) |-> items[i][key]]

\* line 154: total_margin
total_margin_positions_only(positions, collaterals) ==
    sum(field_of(positions, "margin"))

total_margin_of(positions, collaterals) ==
    RAdd(sum(field_of(positions, "margin")), sum(field_of(collaterals, "margin")))

\* line 161: available_margin
available_margin_undiscounted(account_value, account_value_discounted, total_margin) ==
    RSub(account_value, total_margin)

available_margin_of(account_value, account_value_discounted, total_margin) ==
    RSub(account_value_discounted, total_margin)

\* Line 155: total_margin_maintenance
total_margin_maintenance_by_value(positions, collaterals) ==
    RAdd(sum(field_of(positions, "margin_maintenance")),
         sum(field_of(collaterals, "value")))

total_margin_maintenance_of(positions, collaterals) ==
    RAdd(sum(field_of(positions, "margin_maintenance")),
         sum(field_of(collaterals, "margin")))

from_positions_and_collaterals(balance, positions, collaterals) ==
    LET total_pnl == sum(field_of(positions, "pnl"))
        total_margin == total_margin_of(positions, collaterals)
        total_margin_maintenance == total_margin_maintenance_of(positions, collaterals)
        total_collateral_value == sum(field_of(collaterals, "value"))
        total_collateral_value_discounted ==
            sum(field_of(collaterals, "value_discounted"))
        account_value == RAdd(RAdd(balance, total_pnl), total_collateral_value)
        account_value_discounted ==
            RAdd(RAdd(balance, total_pnl), total_collateral_value_discounted)
        available_margin ==
            available_margin_of(account_value, account_value_discounted, total_margin)
        available_margin_maintenance ==
            RSub(account_value_discounted, total_margin_maintenance)
    IN  [status |-> "returned",
         value |-> [account_value |-> account_value,
                    account_value_discounted |-> account_value_discounted,
                    available_margin |-> available_margin,
                    available_margin_maintenance |-> available_margin_maintenance,
                    balance |-> balance,
                    total_pnl |-> total_pnl,
                    total_margin |-> total_margin,
                    total_margin_maintenance |-> total_margin_maintenance,
                    total_collateral_value |-> total_collateral_value,
                    total_collateral_value_discounted |->
                        total_collateral_value_discounted]]

\* Input space of from_positions_and_collaterals: the fields it reads of each
\* valued position and collateral.
ValuedPositions ==
    { [pnl |-> R(-2), margin |-> R(1), margin_maintenance |-> Frac(1, 2)],
      [pnl |-> Frac(3, 2), margin |-> R(2), margin_maintenance |-> R(1)],
      [pnl |-> Zero, margin |-> Frac(1, 4), margin_maintenance |-> R(3)],
      [pnl |-> R(5), margin |-> Zero, margin_maintenance |-> Zero] }

ValuedCollaterals ==
    { [value |-> R(4), value_discounted |-> R(3), margin |-> Frac(1, 5)],
      [value |-> Frac(5, 2), value_discounted |-> Frac(5, 2), margin |-> R(1)],
      [value |-> Zero, value_discounted |-> Zero, margin |-> Zero] }

SeqsUpTo(S, n) == UNION {[1..k -> S] : k \in 0..n}

OverviewArgs ==
    [balance : {Frac(k, 2) : k \in (-1)..MaxBalance},
     positions : SeqsUpTo(ValuedPositions, MaxLen),
     collaterals : SeqsUpTo(ValuedCollaterals, MaxLen)]

NoOverviewArgs == [balance |-> Zero, positions |-> <<>>, collaterals |-> <<>>]

NoDecodeArgs == [fn |-> "none"]

Init ==
    /\ funding_args \in FundingArgs
    /\ funding_ret = NotCalled
    /\ overview_args = NoOverviewArgs
    /\ overview_ret = NotCalled
    /\ decode_args = NoDecodeArgs
    /\ decode_ret = NotCalled
    /\ write = NoWrite
    /\ gateway = NoGateway
    /\ query = NoQuery

CalculateFundingRates ==
    /\ funding_ret = NotCalled
    /\ funding_ret' = calculate_funding_rates(funding_args.oi_long, funding_args.oi_short,
                                              funding_args.skew, funding_args.funding_2_raw,
                                              funding_args.price, funding_args.pair_config)
    /\ UNCHANGED <<funding_args, overview_args, overview_ret, decode_args, decode_ret,
                 write, gateway, query>>

Next == CalculateFundingRates

Spec == Init /\ [][Next]_vars

(***************************************************************************)
(* Properties of calculate_funding_rates, checked under Spec.              *)
(***************************************************************************)
FundingCalled == funding_ret.status # "not_called"
FundingReturned == funding_ret.status = "returned"
BothSidesOpen == funding_args.oi_long # Zero /\ funding_args.oi_short # Zero

\* The pool funding before the carved-out share, recomputed from the inputs.
PoolFundingOf(a) ==
    RAdd(RMul(RMul(RAdd(a.oi_long, a.oi_short), a.price), a.pair_config.funding_pool_0),
         RMul(RAbs(a.skew), a.pair_config.funding_pool_1))

\* C1: whenever oi_long = 0 or oi_short = 0, the call returns and
\* funding_long_apr, funding_short_apr, funding_pool_24h, funding_long_24h and
\* funding_short_24h are all exactly 0, whatever the other inputs are.
C1_ZeroOIDegeneracy ==
    (FundingCalled /\ (funding_args.oi_long = Zero \/ funding_args.oi_short = Zero))
        => /\ FundingReturned
           /\ funding_ret.value.funding_long_apr = Zero
           /\ funding_ret.value.funding_short_apr = Zero
           /\ funding_ret.value.funding_pool_24h = Zero
           /\ funding_ret.value.funding_long_24h = Zero
           /\ funding_ret.value.funding_short_24h = Zero

C1_Witness ==
    /\ FundingReturned
    /\ funding_args.oi_long = Zero
    /\ funding_args.oi_short # Zero
    /\ funding_args.skew # Zero
    /\ funding_args.funding_2_raw # Zero
    /\ funding_args.price # Zero
    /\ funding_ret.value.funding_1 # Zero

\* C2 (as claimed): every call returns a record; no input, price = 0
\* included, makes calculate_funding_rates raise.
C2_TotalForAnyPrice == FundingCalled => FundingReturned

\* C2 (amended): the call returns a record for every input with price # 0 and
\* for every input with oi_long = 0 or oi_short = 0; it raises
\* ZeroDivisionError exactly when price = 0 while both open interests are
\* nonzero (the division by price at line 71 is not guarded).
C2_TotalExceptZeroPrice ==
    FundingCalled =>
        /\ FundingReturned <=> ~(funding_args.price = Zero /\ BothSidesOpen)
        /\ ~FundingReturned => funding_ret.error = "ZeroDivisionError"

C2_Witness ==
    /\ FundingReturned
    /\ funding_args.price = Zero
    /\ funding_args.oi_long # Zero
    /\ funding_args.oi_short = Zero
    /\ funding_args.funding_2_raw # Zero

\* The call with oi_long and oi_short swapped and skew negated, funding_2_raw
\* kept (C3 as claimed) or negated as well (C3 as amended).
MirrorKeepingRaw ==
    calculate_funding_rates(funding_args.oi_short, funding_args.oi_long,
                            RNeg(funding_args.skew), funding_args.funding_2_raw,
                            funding_args.price, funding_args.pair_config)

MirrorNegatingRaw ==
    calculate_funding_rates(funding_args.oi_short, funding_args.oi_long,
                            RNeg(funding_args.skew), RNeg(funding_args.funding_2_raw),
                            funding_args.price, funding_args.pair_config)

RatesSwapped(m) ==
    /\ m.status = "returned"
    /\ m.value.funding_long_apr = funding_ret.value.funding_short_apr
    /\ m.value.funding_short_apr = funding_ret.value.funding_long_apr
    /\ m.value.funding_pool_24h = funding_ret.value.funding_pool_24h

\* C3 (as claimed): with both open interests positive, negating skew and
\* swapping oi_long and oi_short (funding_2_raw, price and pair_config fixed)
\* swaps funding_long_apr and funding_short_apr and keeps funding_pool_24h.
C3_SignSymmetryKeepingRaw ==
    (FundingReturned /\ BothSidesOpen) => RatesSwapped(MirrorKeepingRaw)

\* C3 (amended): with both open interests positive, negating skew AND
\* funding_2_raw and swapping oi_long and oi_short swaps funding_long_apr and
\* funding_short_apr and keeps funding_pool_24h; the mirrored call raises
\* exactly when the original call does.
C3_SignSymmetryNegatingRaw ==
    (FundingCalled /\ BothSidesOpen) =>
        /\ MirrorNegatingRaw.status = funding_ret.status
        /\ FundingReturned => RatesSwapped(MirrorNegatingRaw)

C3_Witness ==
    /\ FundingReturned
    /\ BothSidesOpen
    /\ funding_args.oi_long # funding_args.oi_short
    /\ funding_args.skew # Zero
    /\ funding_ret.value.funding_2 # Zero
    /\ funding_ret.value.funding_long_apr # funding_ret.value.funding_short_apr
    /\ RatesSwapped(MirrorNegatingRaw)

\* C24: with both open interests positive and price > 0, the call with oi_long
\* and oi_short swapped and BOTH skew and funding_2_raw negated returns
\* funding_long_apr and funding_short_apr swapped, funding_1 and funding_2
\* negated, funding_2_max = -funding_2_min and funding_2_min = -funding_2_max
\* of the original, and the same funding_pool_24h; also when
\* funding_1 + funding_2 = 0, where both rates are the pool's alone.
C24_FullMirrorSymmetry ==
    (FundingCalled /\ BothSidesOpen /\ RLt(Zero, funding_args.price)) =>
        LET m == MirrorNegatingRaw
            v == funding_ret.value
        IN  /\ FundingReturned
            /\ m.status = "returned"
            /\ m.value.funding_long_apr = v.funding_short_apr
            /\ m.value.funding_short_apr = v.funding_long_apr
            /\ m.value.funding_long_24h = v.funding_short_24h
            /\ m.value.funding_short_24h = v.funding_long_24h
            /\ m.value.funding_1 = RNeg(v.funding_1)
            /\ m.value.funding_2 = RNeg(v.funding_2)
            /\ m.value.funding_2_raw = RNeg(v.funding_2_raw)
            /\ m.value.funding_2_max = RNeg(v.funding_2_min)
            /\ m.value.funding_2_min = RNeg(v.funding_2_max)
            /\ m.value.funding_pool_24h = v.funding_pool_24h
            /\ RAdd(v.funding_1, v.funding_2) = Zero =>
                   /\ m.locals.branch = funding_ret.locals.branch
                   /\ m.value.funding_long_apr = v.funding_long_apr
                   /\ m.value.funding_short_apr = v.funding_short_apr

\* The mirrored call takes the other branch of a call with nonzero funding.
C24_Witness ==
    /\ FundingReturned
    /\ BothSidesOpen
    /\ RLt(Zero, funding_args.price)
    /\ funding_args.oi_long # funding_args.oi_short
    /\ funding_ret.locals.branch = "long_pays"
    /\ MirrorNegatingRaw.locals.branch = "short_pays"
    /\ funding_ret.value.funding_1 # Zero
    /\ MirrorNegatingRaw.value.funding_1 = RNeg(funding_ret.value.funding_1)
    /\ funding_ret.value.funding_2 = RMul(funding_ret.value.funding_2_max,
                                          funding_args.pair_config.funding_2)
    /\ MirrorNegatingRaw.value.funding_2 =
           RMul(MirrorNegatingRaw.value.funding_2_min, funding_args.pair_config.funding_2)
    /\ funding_ret.value.funding_2 # Zero

\* The case funding_1 + funding_2 = 0 of C24.
C24_ZeroFundingReached ==
    /\ FundingReturned
    /\ BothSidesOpen
    /\ RLt(Zero, funding_args.price)
    /\ funding_args.oi_long # funding_args.oi_short
    /\ RAdd(funding_ret.value.funding_1, funding_ret.value.funding_2) = Zero
    /\ funding_ret.value.funding_long_apr # Zero

\* C4: the returned funding_2 is at most oi_long * price * pair_config.funding_2
\* and at least -oi_short * price * pair_config.funding_2, whatever
\* funding_2_raw is, and the returned bounds are funding_2_max = oi_long * price
\* and funding_2_min = -oi_short * price.
C4_ClampBoundary ==
    FundingReturned =>
        /\ funding_ret.value.funding_2_max = RMul(funding_args.oi_long, funding_args.price)
        /\ funding_ret.value.funding_2_min =
               RNeg(RMul(funding_args.oi_short, funding_args.price))
        /\ RLe(funding_ret.value.funding_2,
               RMul(RMul(funding_args.oi_long, funding_args.price),
                    funding_args.pair_config.funding_2))
        /\ RLe(RNeg(RMul(RMul(funding_args.oi_short, funding_args.price),
                         funding_args.pair_config.funding_2)),
               funding_ret.value.funding_2)

C4_Witness ==
    /\ FundingReturned
    /\ funding_args.pair_config.funding_2 # Zero
    /\ RLt(funding_ret.value.funding_2_max, funding_args.funding_2_raw)
    /\ RLt(Zero, funding_ret.value.funding_2_max)
    /\ funding_ret.value.funding_2 =
           RMul(funding_ret.value.funding_2_max, funding_args.pair_config.funding_2)

\* C5: with both open interests positive and funding = funding_1 + funding_2:
\* if funding > 0 the long side pays,
\*   funding_long_apr  = (funding / oi_long + funding_pool_index) / price
\*   funding_short_apr = (-(funding - funding * funding_share) / oi_short
\*                        + funding_pool_index) / price
\* and if funding <= 0 the short side pays,
\*   funding_short_apr = (-funding / oi_short + funding_pool_index) / price
\*   funding_long_apr  = (-(-funding - (-funding) * funding_share) / oi_long
\*                        + funding_pool_index) / price.
C5_PayingSide ==
    (FundingReturned /\ BothSidesOpen) =>
        LET a == funding_args
            share == a.pair_config.funding_share
            funding == RAdd(funding_ret.value.funding_1, funding_ret.value.funding_2)
            pool_index == RDiv(PoolFundingOf(a), RAdd(a.oi_long, a.oi_short))
        IN  IF RLt(Zero, funding)
            THEN /\ funding_ret.value.funding_long_apr =
                        RDiv(RAdd(RDiv(funding, a.oi_long), pool_index), a.price)
                 /\ funding_ret.value.funding_short_apr =
                        RDiv(RAdd(RDiv(RNeg(RSub(funding, RMul(funding, share))),
                                       a.oi_short),
                                  pool_index), a.price)
            ELSE /\ funding_ret.value.funding_short_apr =
                        RDiv(RAdd(RDiv(RNeg(funding), a.oi_short), pool_index), a.price)
                 /\ funding_ret.value.funding_long_apr =
                        RDiv(RAdd(RDiv(RNeg(RSub(RNeg(funding),
                                                 RMul(RNeg(funding), share))),
                                       a.oi_long),
                                  pool_index), a.price)

C5_Witness ==
    /\ FundingReturned
    /\ BothSidesOpen
    /\ RLt(RAdd(funding_ret.value.funding_1, funding_ret.value.funding_2), Zero)
    /\ funding_args.pair_config.funding_share # Zero
    /\ RLt(funding_ret.value.funding_long_apr, Zero)
    /\ RLt(Zero, funding_ret.value.funding_short_apr)

\* C6: with both open interests positive,
\*   funding_pool_24h = ((oi_long + oi_short) * price * funding_pool_0
\*                       + |skew| * funding_pool_1
\*                       + |funding_1 + funding_2| * funding_share) / 365,
\* and the carved-out share is not part of the funding_pool_index that enters
\* the long and short rates.
C6_PoolFunding ==
    (FundingReturned /\ BothSidesOpen) =>
        LET a == funding_args
            l == funding_ret.locals
            funding == RAdd(funding_ret.value.funding_1, funding_ret.value.funding_2)
            pool_index == RDiv(PoolFundingOf(a), RAdd(a.oi_long, a.oi_short))
        IN  /\ funding_ret.value.funding_pool_24h =
                   RDiv(RAdd(PoolFundingOf(a),
                             RMul(RAbs(funding), a.pair_config.funding_share)),
                        R(365))
            /\ funding_ret.value.funding_long_apr =
                   RDiv(RAdd(l.funding_long_index, pool_index), a.price)
            /\ funding_ret.value.funding_short_apr =
                   RDiv(RAdd(l.funding_short_index, pool_index), a.price)

C6_Witness ==
    /\ FundingReturned
    /\ BothSidesOpen
    /\ funding_ret.locals.funding_share # Zero
    /\ funding_ret.locals.funding_pool_0 # Zero
    /\ funding_ret.locals.funding_pool_1 # Zero
    /\ funding_ret.locals.funding_pool =
           RAdd(RAdd(funding_ret.locals.funding_pool_0, funding_ret.locals.funding_pool_1),
                funding_ret.locals.funding_share)

\* C7: in every returned record, zero-open-interest branch or not,
\* funding_long_24h = funding_long_apr / 365 and
\* funding_short_24h = funding_short_apr / 365.
C7_DailyAprConsistency ==
    FundingReturned =>
        /\ funding_ret.value.funding_long_24h =
               RDiv(funding_ret.value.funding_long_apr, R(365))
        /\ funding_ret.value.funding_short_24h =
               RDiv(funding_ret.value.funding_short_apr, R(365))

C7_Witness ==
    /\ FundingReturned
    /\ BothSidesOpen
    /\ funding_ret.value.funding_long_apr # Zero
    /\ funding_ret.value.funding_short_apr # Zero
    /\ funding_ret.value.funding_long_24h # funding_ret.value.funding_long_apr

\* The inputs of the worked example.
ScenarioArgs ==
    [oi_long |-> R(10), oi_short |-> R(5), skew |-> R(500),
     funding_2_raw |-> R(1000), price |-> R(100),
     pair_config |-> [funding_1 |-> Frac(1, 10000), funding_2 |-> Frac(1, 20000),
                      funding_pool_0 |-> Zero, funding_pool_1 |-> Zero,
                      funding_share |-> Frac(1, 10)]]

\* C8: for oi_long = 10, oi_short = 5, price = 100, skew = 500,
\* funding_2_raw = 1000, funding_1 coefficient 0.0001, funding_2 coefficient
\* 0.00005, funding_share 0.1 and both pool coefficients 0, the call yields
\* funding_1 = 0.05, funding_2_max = 1000, funding_2_min = -500,
\* funding_2 = 0.05, takes the long-pays branch with funding = 0.10, share
\* amount 0.01, funding_long_index = 0.01, funding_short_index = -0.018,
\* funding_long_apr = 0.01 / 100 and funding_short_apr = -0.018 / 100.
C8_ConcreteScenario ==
    (FundingCalled /\ funding_args = ScenarioArgs) =>
        /\ FundingReturned
        /\ funding_ret.value.funding_1 = Frac(5, 100)
        /\ funding_ret.value.funding_2_max = R(1000)
        /\ funding_ret.value.funding_2_min = R(-500)
        /\ funding_ret.value.funding_2 = Frac(5, 100)
        /\ funding_ret.locals.branch = "long_pays"
        /\ funding_ret.locals.funding = Frac(10, 100)
        /\ funding_ret.locals.funding_share = Frac(1, 100)
        /\ funding_ret.locals.funding_long_index = Frac(1, 100)
        /\ funding_ret.locals.funding_short_index = Frac(-18, 1000)
        /\ funding_ret.value.funding_long_apr = RDiv(Frac(1, 100), R(100))
        /\ funding_ret.value.funding_short_apr = RDiv(Frac(-18, 1000), R(100))

C8_Witness ==
    /\ FundingReturned
    /\ funding_args = ScenarioArgs
    /\ funding_ret.locals.funding_share = Frac(1, 100)

\* C23: with both open interests positive, in the funding > 0 and in the
\* funding <= 0 branch alike, what the paying side pays equals what the other
\* side receives plus the share carved out to the pool:
\*   funding_long_index * oi_long + funding_short_index * oi_short
\*       = |funding_1 + funding_2| * funding_share,
\* and (funding_long_apr * oi_long + funding_short_apr * oi_short) * price
\*       = funding_pool_0 term + funding_pool_1 term + share = funding_pool_24h * 365.
C23_FundingConservation ==
    (FundingReturned /\ BothSidesOpen) =>
        LET a == funding_args
            l == funding_ret.locals
            v == funding_ret.value
            share == RMul(RAbs(RAdd(v.funding_1, v.funding_2)), a.pair_config.funding_share)
            paid_net == RAdd(RMul(l.funding_long_index, a.oi_long),
                             RMul(l.funding_short_index, a.oi_short))
            rates_net == RMul(RAdd(RMul(v.funding_long_apr, a.oi_long),
                                   RMul(v.funding_short_apr, a.oi_short)),
                              a.price)
        IN  /\ paid_net = share
            /\ rates_net = RAdd(PoolFundingOf(a), share)
            /\ rates_net = RMul(v.funding_pool_24h, R(365))

C23_Witness ==
    /\ FundingReturned
    /\ BothSidesOpen
    /\ funding_ret.locals.branch = "short_pays"
    /\ RLt(funding_ret.locals.funding, Zero)
    /\ funding_ret.locals.funding_share # Zero
    /\ funding_ret.locals.funding_pool_0 # Zero
    /\ funding_ret.locals.funding_pool_1 # Zero
    /\ RAdd(RMul(funding_ret.locals.funding_long_index, funding_args.oi_long),
            RMul(funding_ret.locals.funding_short_index, funding_args.oi_short))
           = funding_ret.locals.funding_share

(***************************************************************************)
(* Specification of one call of from_positions_and_collaterals.            *)
(***************************************************************************)
InitOverview ==
    /\ funding_args = ScenarioArgs
    /\ funding_ret = NotCalled
    /\ overview_args \in OverviewArgs
    /\ overview_ret = NotCalled
    /\ decode_args = NoDecodeArgs
    /\ decode_ret = NotCalled
    /\ write = NoWrite
    /\ gateway = NoGateway
    /\ query = NoQuery

FromPositionsAndCollaterals ==
    /\ overview_ret = NotCalled
    /\ overview_ret' = from_positions_and_collaterals(overview_args.balance,
                                                      overview_args.positions,
                                                      overview_args.collaterals)
    /\ UNCHANGED <<funding_args, funding_ret, overview_args, decode_args, decode_ret,
                 write, gateway, query>>

NextOverview == FromPositionsAndCollaterals

SpecOverview == InitOverview /\ [][NextOverview]_vars

(***************************************************************************)
(* Properties of from_positions_and_collaterals, checked under             *)
(* SpecOverview.                                                           *)
(***************************************************************************)
OverviewReturned == overview_ret.status = "returned"

\* The sum of one field over a list, added up from the right.
RECURSIVE Total(_, _)
Total(items, key) ==
    IF items = <<>> THEN Zero ELSE RAdd(Head(items)[key], Total(Tail(items), key))

\* C9: total_margin is the sum of the positions' margin plus the sum of the
\* collaterals' margin, for empty and nonempty lists alike; with both lists
\* empty every total is 0 and account_value = account_value_discounted =
\* balance.
C9_AggregationAdditivity ==
    OverviewReturned =>
        /\ overview_ret.value.total_margin =
               RAdd(Total(overview_args.positions, "margin"),
                    Total(overview_args.collaterals, "margin"))
        /\ (overview_args.positions = <<>> /\ overview_args.collaterals = <<>>) =>
               /\ overview_ret.value.total_pnl = Zero
               /\ overview_ret.value.total_margin = Zero
               /\ overview_ret.value.total_margin_maintenance = Zero
               /\ overview_ret.value.total_collateral_value = Zero
               /\ overview_ret.value.total_collateral_value_discounted = Zero
               /\ overview_ret.value.account_value = overview_args.balance
               /\ overview_ret.value.account_value_discounted = overview_args.balance

C9_Witness ==
    /\ OverviewReturned
    /\ Len(overview_args.positions) = 2
    /\ Len(overview_args.collaterals) = 1
    /\ overview_args.positions[1].margin # Zero
    /\ overview_args.positions[2].margin # Zero
    /\ overview_args.collaterals[1].margin # Zero
    /\ overview_ret.value.total_margin # Total(overview_args.positions, "margin")

\* C10: account_value = balance + total_pnl + total_collateral_value,
\* account_value_discounted = balance + total_pnl +
\* total_collateral_value_discounted, total_margin_maintenance = sum of the
\* positions' margin_maintenance + sum of the collaterals' margin,
\* available_margin = account_value_discounted - total_margin and
\* available_margin_maintenance = account_value_discounted -
\* total_margin_maintenance.
C10_OverviewFormulas ==
    OverviewReturned =>
        LET a == overview_args
            v == overview_ret.value
            pnl == Total(a.positions, "pnl")
            discounted ==
                RAdd(RAdd(a.balance, pnl), Total(a.collaterals, "value_discounted"))
        IN  /\ v.total_pnl = pnl
            /\ v.total_collateral_value = Total(a.collaterals, "value")
            /\ v.total_collateral_value_discounted =
                   Total(a.collaterals, "value_discounted")
            /\ v.account_value =
                   RAdd(RAdd(a.balance, v.total_pnl), v.total_collateral_value)
            /\ v.account_value_discounted = discounted
            /\ v.total_margin_maintenance =
                   RAdd(Total(a.positions, "margin_maintenance"),
                        Total(a.collaterals, "margin"))
            /\ v.available_margin = RSub(discounted, v.total_margin)
            /\ v.available_margin_maintenance =
                   RSub(discounted, v.total_margin_maintenance)

C10_Witness ==
    /\ OverviewReturned
    /\ overview_args.balance # Zero
    /\ overview_args.positions # <<>>
    /\ overview_args.collaterals # <<>>
    /\ overview_ret.value.account_value # overview_ret.value.account_value_discounted
    /\ overview_ret.value.total_margin # overview_ret.value.total_margin_maintenance
    /\ RLt(overview_ret.value.available_margin_maintenance, Zero)

\* C25: for any balance and collaterals, if every position has
\* margin_maintenance <= margin then total_margin_maintenance <= total_margin
\* and available_margin_maintenance >= available_margin, so an account with
\* negative available_margin_maintenance also has negative available_margin;
\* and account_value - account_value_discounted
\*       = total_collateral_value - total_collateral_value_discounted.
MaintenanceWithinMargin ==
    \A i \in 1..Len(overview_args.positions) :
        RLe(overview_args.positions[i].margin_maintenance, overview_args.positions[i].margin)

C25_MaintenanceOrdering ==
    overview_ret.status = "returned" =>
        LET o == overview_ret.value
        IN  /\ MaintenanceWithinMargin =>
                   /\ RLe(o.total_margin_maintenance, o.total_margin)
                   /\ RLe(o.available_margin, o.available_margin_maintenance)
                   /\ RLt(o.available_margin_maintenance, Zero) =>
                          RLt(o.available_margin, Zero)
            /\ RSub(o.account_value, o.account_value_discounted) =
                   RSub(o.total_collateral_value, o.total_collateral_value_discounted)

C25_Witness ==
    /\ overview_ret.status = "returned"
    /\ MaintenanceWithinMargin
    /\ Len(overview_args.positions) = 2
    /\ Len(overview_args.collaterals) >= 1
    /\ RLt(overview_ret.value.total_margin_maintenance, overview_ret.value.total_margin)
    /\ RLt(overview_ret.value.available_margin_maintenance, Zero)
    /\ RLt(overview_ret.value.available_margin, overview_ret.value.available_margin_maintenance)
    /\ overview_ret.value.account_value # overview_ret.value.account_value_discounted

(***************************************************************************)
(* surge/types.py: the from_json decoders.                                 *)
(*                                                                         *)
(* A decoded ledger value is a record with a "value" (a string), "fields"  *)
(* or "elements" (lists) and, for an enum, a "variant_id".  A numeric      *)
(* string is a tuple of one-character strings, <<"-", "1", ".", "5">> for  *)
(* "-1.5", so that float() and int() are modelled as the parsers they are. *)
(* A Python list index i is the TLA+ index i + 1.                          *)
(***************************************************************************)
Raise(error, arg) == [status |-> "raised", error |-> error, arg |-> arg]
Return(value) == [status |-> "returned", value |-> value]

DigitChars == <<"0", "1", "2", "3", "4", "5", "6", "7", "8", "9">>
DigitVal(c) == (CHOOSE i \in 1..10 : DigitChars[i] = c) - 1

RECURSIVE Number(_)
Number(digits) ==
    IF digits = <<>>
    THEN 0
    ELSE 10 * Number(SubSeq(digits, 1, Len(digits) - 1)) + DigitVal(digits[Len(digits)])

RECURSIVE Pow10(_)
Pow10(k) == IF k = 0 THEN 1 ELSE 10 * Pow10(k - 1)

IsDigit(c) == c # "." /\ c # "-"

\* Python's float(s) on a decimal string "[-]ddd[.ddd]".
float(s) ==
    LET negative == s[1] = "-"
        body == IF negative THEN Tail(s) ELSE s
        digits == SelectSeq(body, IsDigit)
        dots == {i \in 1..Len(body) : body[i] = "."}
        decimals == IF dots = {} THEN 0 ELSE Len(body) - (CHOOSE i \in dots : TRUE)
        magnitude == Number(digits)
    IN  Frac(IF negative THEN -magnitude ELSE magnitude, Pow10(decimals))

\* Python's int(s) on an integer string "[-]ddd".
int(s) ==
    IF s[1] = "-" THEN -Number(Tail(s)) ELSE Number(s)

\* list[i]: the item, or IndexError when the list is too short.
IndexError == [index_error |-> "list index out of range"]

item_or_default(list, i) ==
    IF i < Len(list) THEN list[i + 1] ELSE [value |-> <<"0">>]

item(list, i) == IF i < Len(list) THEN list[i + 1] ELSE IndexError

\* prices[pair]: the price, or KeyError(pair) when the map has no such key.
KeyError(key) == [key_error |-> key]

lookup_or_zero(prices, pair) ==
    IF pair \in DOMAIN prices THEN prices[pair] ELSE Zero

lookup(prices, pair) ==
    IF pair \in DOMAIN prices THEN prices[pair] ELSE KeyError(pair)

\* line 73: pnl = value - cost - funding
position_pnl_ignoring_funding(value, cost, funding) == RSub(value, cost)

position_pnl(value, cost, funding) == RSub(RSub(value, cost), funding)

\* line 74: roi = pnl / abs(cost) * 100
position_roi_guarded(pnl, cost) ==
    IF cost = Zero THEN Zero ELSE RMul(RDiv(pnl, RAbs(cost)), R(100))

position_roi(pnl, cost) == RMul(RDiv(pnl, RAbs(cost)), R(100))

\* Position.from_json (lines 57-86)
Position_from_json(elem, prices) ==
    LET fields == elem.fields
    IN  IF \E i \in 0..5 : item(fields, i) = IndexError
        THEN Raise("IndexError", "list index out of range")
        ELSE
        LET pair == item(fields, 0).value
            size == float(item(fields, 1).value)
            margin_share == float(item(fields, 2).value)
            margin_maintenance_share == float(item(fields, 3).value)
            cost == float(item(fields, 4).value)
            funding == float(item(fields, 5).value)
            mark_price == lookup(prices, pair)
        IN  IF mark_price = KeyError(pair)
            THEN Raise("KeyError", pair)
            ELSE
            LET entry_price == RDiv(cost, size)
                value == RMul(size, mark_price)
                margin == RMul(margin_share, mark_price)
                margin_maintenance == RMul(margin_maintenance_share, mark_price)
                pnl == position_pnl(value, cost, funding)
                roi == position_roi(pnl, cost)
            IN  IF ~IsNum(entry_price) \/ ~IsNum(roi)
                THEN Raise("ZeroDivisionError", "float division by zero")
                ELSE Return([pair |-> pair,
                             size |-> size,
                             value |-> value,
                             entry_price |-> entry_price,
                             mark_price |-> mark_price,
                             margin |-> margin,
                             margin_maintenance |-> margin_maintenance,
                             pnl |-> pnl,
                             roi |-> roi])

\* line 115: value_discounted = value * discount
collateral_value_discounted_unpriced(amount, value, discount) == RMul(amount, discount)

collateral_value_discounted(amount, value, discount) == RMul(value, discount)

\* Collateral.from_json (lines 104-127)
Collateral_from_json(elem, prices) ==
    LET fields == elem.fields
    IN  IF \E i \in 0..4 : item(fields, i) = IndexError
        THEN Raise("IndexError", "list index out of range")
        ELSE
        LET pair == item(fields, 0).value
            resource == item(fields, 1).value
            amount == float(item(fields, 2).value)
            discount == float(item(fields, 3).value)
            margin_share == float(item(fields, 4).value)
            mark_price == lookup(prices, pair)
        IN  IF mark_price = KeyError(pair)
            THEN Raise("KeyError", pair)
            ELSE
            LET value == RMul(amount, mark_price)
                value_discounted == collateral_value_discounted(amount, value, discount)
                margin == RMul(margin_share, mark_price)
            IN  Return([pair |-> pair,
                        resource |-> resource,
                        mark_price |-> mark_price,
                        amount |-> amount,
                        value |-> value,
                        discount |-> discount,
                        value_discounted |-> value_discounted,
                        margin |-> margin])

\* ret.Decimal(s): the exact decimal value of the string.
Decimal(s) == float(s)

\* PriceLimit.from_json (lines 405-415)
PriceLimit_from_json(json_data) ==
    LET variant_id == int(json_data.variant_id)
    IN  IF variant_id = 0
        THEN Return([type |-> "NONE", value |-> "None"])
        ELSE IF item(json_data.fields, 0) = IndexError
        THEN Raise("IndexError", "list index out of range")
        ELSE IF variant_id = 1
        THEN Return([type |-> "GTE", value |-> Decimal(item(json_data.fields, 0).value)])
        ELSE Return([type |-> "LTE", value |-> Decimal(item(json_data.fields, 0).value)])

\* SlippageLimit.from_json (lines 468-478)
SlippageLimit_from_json(json_data) ==
    LET variant_id == int(json_data.variant_id)
    IN  IF variant_id = 0
        THEN Return([type |-> "NONE", value |-> "None"])
        ELSE IF item(json_data.fields, 0) = IndexError
        THEN Raise("IndexError", "list index out of range")
        ELSE IF variant_id = 1
        THEN Return([type |-> "PERCENT",
                     value |-> Decimal(item(json_data.fields, 0).value)])
        ELSE Return([type |-> "ABSOLUTE",
                     value |-> Decimal(item(json_data.fields, 0).value)])

\* lines 521-528: the status table and its default
status_of_without_failed(status_id) ==
    CASE status_id = 0 -> "Dormant"
      [] status_id = 1 -> "Active"
      [] status_id = 2 -> "Executed"
      [] status_id = 3 -> "Canceled"
      [] status_id = 4 -> "Expired"
      [] OTHER -> "Unknown"

status_of(status_id) ==
    CASE status_id = 0 -> "Dormant"
      [] status_id = 1 -> "Active"
      [] status_id = 2 -> "Executed"
      [] status_id = 3 -> "Canceled"
      [] status_id = 4 -> "Expired"
      [] status_id = 5 -> "Failed"
      [] OTHER -> "Unknown"

\* line 564: size >= 0
long_intent_strict(size) == RLt(Zero, size)

long_intent(size) == RLe(Zero, size)

\* lines 557-564: the order-type table and its default
order_type(limit_type, is_long) ==
    CASE limit_type = "NONE" /\ is_long -> "Market Long"
      [] limit_type = "NONE" /\ ~is_long -> "Market Short"
      [] limit_type = "GTE" /\ is_long -> "Stop Long"
      [] limit_type = "LTE" /\ ~is_long -> "Limit Short"
      [] limit_type = "LTE" /\ is_long -> "Limit Long"
      [] limit_type = "GTE" /\ ~is_long -> "Stop Short"
      [] OTHER -> "Unknown"

\* Python's bool(x) on a decoded JSON boolean.
bool(x) == x = TRUE

\* [i['value'] for i in list]
values_of(list) == [i \in 1..Len(list) |-> list[i].value]

\* lines 534-540: the claims of a collateral-removal request
claims_of(elements) ==
    [i \in 1..Len(elements) |->
        [resource |-> item(elements[i].fields, 0).value,
         size |-> item(elements[i].fields, 1).value]]

\* Request.from_json (lines 509-586)
Request_from_json(elem) ==
    LET request == elem.fields
    IN  IF \E i \in 0..4 : item(request, i) = IndexError
        THEN Raise("IndexError", "list index out of range")
        ELSE
        LET index == item(request, 0).value
            submission == item(request, 2).value
            expiry == item(request, 3).value
            status_id == int(item(request, 4).value)
            request_variant_id == int(item(request, 1).variant_id)
            payload == item(request, 1).fields
            status == status_of(status_id)
        IN  \* line 518: request[1]['fields'][0]['fields'], before any branch
            IF item(payload, 0) = IndexError
            THEN Raise("IndexError", "list index out of range")
            ELSE IF "fields" \notin DOMAIN item(payload, 0)
            THEN Raise("KeyError", "fields")
            ELSE
            LET request_inner == item(payload, 0).fields
                result(type, request_details) ==
                    Return([type |-> type,
                            index |-> index,
                            submission |-> submission,
                            expiry |-> expiry,
                            status |-> status,
                            request_details |-> request_details])
            IN  IF request_variant_id = 0
                THEN IF \E i \in 0..1 : item(request_inner, i) = IndexError
                     THEN Raise("IndexError", "list index out of range")
                     ELSE result("Remove Collateral",
                                 [target_account |-> item(request_inner, 0).value,
                                  claims |-> claims_of(item(request_inner, 1).elements)])
                ELSE IF request_variant_id = 1
                THEN IF \E i \in 0..3 : item(request_inner, i) = IndexError
                     THEN Raise("IndexError", "list index out of range")
                     ELSE
                     LET pair_id == item(request_inner, 0).value
                         size == float(item(request_inner, 1).value)
                         reduce_only == bool(item(request_inner, 2).value)
                         limit_price == PriceLimit_from_json(item(request_inner, 3))
                     IN  IF limit_price.status = "raised"
                         THEN limit_price
                         ELSE IF item(request_inner, 4) = IndexError
                         THEN Raise("IndexError", "list index out of range")
                         ELSE
                         LET limit_slippage ==
                                 SlippageLimit_from_json(item(request_inner, 4))
                         IN  IF limit_slippage.status = "raised"
                             THEN limit_slippage
                             ELSE IF \E i \in 5..6 : item(request_inner, i) = IndexError
                             THEN Raise("IndexError", "list index out of range")
                             ELSE result(
                                 order_type(limit_price.value.type, long_intent(size)),
                                 [pair |-> pair_id,
                                  size |-> size,
                                  reduce_only |-> reduce_only,
                                  limit_price |-> limit_price.value,
                                  limit_slippage |-> limit_slippage.value,
                                  activate_requests |->
                                      values_of(item(request_inner, 5).elements),
                                  cancel_requests |->
                                      values_of(item(request_inner, 6).elements)])
                ELSE result("Unknown", "None")

\* PoolDetails.from_json (lines 193-204)
PoolDetails_from_json(result) ==
    IF \E i \in 0..7 : item(result, i) = IndexError
    THEN Raise("IndexError", "list index out of range")
    ELSE Return([token_amount |-> item(result, 0).value,
                 balance |-> item(result, 1).value,
                 unrealized_pool_funding |-> item(result, 2).value,
                 pnl_snap |-> item(result, 3).value,
                 skew_ratio |-> item(result, 4).value,
                 skew_ratio_cap |-> item(result, 5).value,
                 lp_supply |-> item(result, 6).value,
                 lp_price |-> item(result, 7).value])

\* PairConfig.from_json (lines 231-251)
PairConfig_from_json(fields) ==
    IF \E i \in 0..16 : item(fields, i) = IndexError
    THEN Raise("IndexError", "list index out of range")
    ELSE Return([pair |-> item(fields, 0).value,
                 price_max_age |-> int(item(fields, 1).value),
                 oi_max |-> float(item(fields, 2).value),
                 trade_size_min |-> float(item(fields, 3).value),
                 update_price_delta_ratio |-> float(item(fields, 4).value),
                 update_period_seconds |-> float(item(fields, 5).value),
                 margin |-> float(item(fields, 6).value),
                 margin_maintenance |-> float(item(fields, 7).value),
                 funding_1 |-> float(item(fields, 8).value),
                 funding_2 |-> float(item(fields, 9).value),
                 funding_2_delta |-> float(item(fields, 10).value),
                 funding_2_decay |-> float(item(fields, 11).value),
                 funding_pool_0 |-> float(item(fields, 12).value),
                 funding_pool_1 |-> float(item(fields, 13).value),
                 funding_share |-> float(item(fields, 14).value),
                 fee_0 |-> float(item(fields, 15).value),
                 fee_1 |-> float(item(fields, 16).value)])

\* PairDetails.from_json, line 292: skew = (oi_long - oi_short) * price
pair_skew_unpriced(oi_long, oi_short, price) == RSub(oi_long, oi_short)
pair_skew(oi_long, oi_short, price) == RMul(RSub(oi_long, oi_short), price)

\* PairDetails.from_json, lines 291-324: the funding figures, computed in place.
pair_funding(oi_long, oi_short, funding_2_raw, price, pair_config) ==
    LET oi_net == RAdd(oi_long, oi_short)
        skew == pair_skew(oi_long, oi_short, price)
        funding_1 == RMul(skew, pair_config.funding_1)
        funding_2_max == RMul(oi_long, price)
        funding_2_min == RMul(RNeg(oi_short), price)
        funding_2 == RMul(RMin(RMax(funding_2_raw, funding_2_min), funding_2_max),
                          pair_config.funding_2)
        head == [oi_net |-> oi_net, skew |-> skew,
                 funding_1 |-> funding_1, funding_2 |-> funding_2,
                 funding_2_max |-> funding_2_max, funding_2_min |-> funding_2_min]
    IN  IF oi_long = Zero \/ oi_short = Zero
        THEN head @@ [funding_long |-> Zero, funding_short |-> Zero,
                      funding_pool |-> Zero]
        ELSE
        LET funding == RAdd(funding_1, funding_2)
            funding_share ==
                IF RLt(Zero, funding)
                THEN RMul(funding, pair_config.funding_share)
                ELSE RMul(RNeg(funding), pair_config.funding_share)
            funding_long_index ==
                IF RLt(Zero, funding)
                THEN RDiv(funding, oi_long)
                ELSE RDiv(RNeg(RSub(RNeg(funding), funding_share)), oi_long)
            funding_short_index ==
                IF RLt(Zero, funding)
                THEN RDiv(RNeg(RSub(funding, funding_share)), oi_short)
                ELSE RDiv(RNeg(funding), oi_short)
            funding_pool_0 == RMul(RMul(oi_net, price), pair_config.funding_pool_0)
            funding_pool_1 == RMul(RAbs(skew), pair_config.funding_pool_1)
            funding_pool == RAdd(funding_pool_0, funding_pool_1)
            funding_pool_index == RDiv(funding_pool, oi_net)
        IN  head @@ [funding_long |->
                         RDiv(RAdd(funding_long_index, funding_pool_index), price),
                     funding_short |->
                         RDiv(RAdd(funding_short_index, funding_pool_index), price),
                     funding_pool |-> RAdd(funding_pool, funding_share)]

\* PairDetails.from_json (lines 278-344)
PairDetails_from_json(elem, prices) ==
    LET fields == elem.fields
    IN  IF \E i \in 0..1 : item(fields, i) = IndexError
        THEN Raise("IndexError", "list index out of range")
        ELSE
        LET pair == item(fields, 0).value
            pool_position == item(fields, 1).fields
        IN  IF \E i \in {0, 1, 2, 5} : item(pool_position, i) = IndexError
            THEN Raise("IndexError", "list index out of range")
            ELSE IF item(fields, 2) = IndexError
            THEN Raise("IndexError", "list index out of range")
            ELSE
            LET oi_long == float(item(pool_position, 0).value)
                oi_short == float(item(pool_position, 1).value)
                cost == float(item(pool_position, 2).value)
                funding_2_raw == float(item(pool_position, 5).value)
                pair_config == PairConfig_from_json(item(fields, 2).fields)
                price == lookup(prices, pair)
            IN  IF pair_config.status = "raised"
                THEN pair_config
                ELSE IF price = KeyError(pair)
                THEN Raise("KeyError", pair)
                ELSE
                LET f == pair_funding(oi_long, oi_short, funding_2_raw, price,
                                      pair_config.value)
                IN  IF ~IsNum(f.funding_long) \/ ~IsNum(f.funding_short)
                    THEN Raise("ZeroDivisionError", "float division by zero")
                    ELSE Return([pair |-> pair,
                                 oi_long |-> oi_long,
                                 oi_short |-> oi_short,
                                 oi_net |-> f.oi_net,
                                 cost |-> cost,
                                 skew |-> f.skew,
                                 funding_1 |-> f.funding_1,
                                 funding_2 |-> f.funding_2,
                                 funding_2_raw |-> funding_2_raw,
                                 funding_2_max |-> f.funding_2_max,
                                 funding_2_min |-> f.funding_2_min,
                                 funding_long_apr |-> f.funding_long,
                                 funding_long_24h |-> RDiv(f.funding_long, R(365)),
                                 funding_short_apr |-> f.funding_short,
                                 funding_short_24h |-> RDiv(f.funding_short, R(365)),
                                 funding_pool_24h |-> RDiv(f.funding_pool, R(365)),
                                 pair_config |-> pair_config.value])

\* A list comprehension [f(x) for x in xs], given the outcome of f on every
\* item: the first item that raises ends the comprehension with its error.
comprehension_reversed(outcomes) ==
    LET raised == {i \in 1..Len(outcomes) : outcomes[i].status = "raised"}
    IN  IF raised # {}
        THEN outcomes[CHOOSE i \in raised : \A j \in raised : i <= j]
        ELSE Return([i \in 1..Len(outcomes) |-> outcomes[Len(outcomes) + 1 - i].value])

comprehension(outcomes) ==
    LET raised == {i \in 1..Len(outcomes) : outcomes[i].status = "raised"}
    IN  IF raised # {}
        THEN outcomes[CHOOSE i \in raised : \A j \in raised : i <= j]
        ELSE Return([i \in 1..Len(outcomes) |-> outcomes[i].value])

\* AccountDetails.from_json (lines 603-623)
AccountDetails_from_json(result, prices) ==
    LET balance == float(item(result, 0).value)
        position_elems == item(result, 1).elements
        collateral_elems == item(result, 2).elements
        active_elems == item(result, 4).elements
        history_elems == item(result, 5).elements
        positions ==
            comprehension([i \in 1..Len(position_elems) |->
                               Position_from_json(position_elems[i], prices)])
        collaterals ==
            comprehension([i \in 1..Len(collateral_elems) |->
                               Collateral_from_json(collateral_elems[i], prices)])
        valid_requests_start == item(result, 3).value
        active_requests ==
            comprehension([i \in 1..Len(active_elems) |->
                               Request_from_json(active_elems[i])])
        requests_history ==
            comprehension([i \in 1..Len(history_elems) |->
                               Request_from_json(history_elems[i])])
    IN  IF positions.status = "raised" THEN positions
        ELSE IF collaterals.status = "raised" THEN collaterals
        ELSE IF active_requests.status = "raised" THEN active_requests
        ELSE IF requests_history.status = "raised" THEN requests_history
        ELSE Return([balance |-> balance,
                     positions |-> positions.value,
                     collaterals |-> collaterals.value,
                     valid_requests_start |-> valid_requests_start,
                     active_requests |-> active_requests.value,
                     requests_history |-> requests_history.value,
                     overview |->
                         from_positions_and_collaterals(balance, positions.value,
                                                        collaterals.value).value])

\* Exchange.pair_details, lines 154-160: the list built from the previewed
\* elements and the oracle's prices.
Exchange_pair_details(elements, prices) ==
    comprehension([i \in 1..Len(elements) |-> PairDetails_from_json(elements[i], prices)])

(***************************************************************************)
(* Input space of the decoders.                                            *)
(***************************************************************************)
Pairs == {"BTC/USD", "ETH/USD"}

\* A price map has a price for some of the pairs.
PriceMaps == UNION {[S -> PriceValues] : S \in SUBSET Pairs}

Str(s) == [value |-> s]

Prefixes(list) == {SubSeq(list, 1, k) : k \in 0..Len(list)}

SizeStrings == {<<"0">>, <<"2">>, <<"-", "0", ".", "5">>}
CostStrings == {<<"0">>, <<"1", "5", "0">>, <<"-", "4", "0">>}
FundingStrings == {<<"0">>, <<"1", ".", "5">>, <<"-", "3">>}

PositionFields ==
    {<<Str(pair), Str(size), Str(<<"0", ".", "1">>), Str(<<"0", ".", "0", "5">>),
       Str(cost), Str(funding)>> :
        pair \in Pairs, size \in SizeStrings, cost \in CostStrings,
        funding \in FundingStrings}

PositionElems == {[fields |-> f] : f \in PositionFields}

AmountStrings == {<<"0">>, <<"1", "0">>, <<"2", ".", "5">>}
DiscountStrings == {<<"0">>, <<"0", ".", "9">>, <<"1">>}

CollateralFields ==
    {<<Str(pair), Str("resource_xrd"), Str(amount), Str(discount),
       Str(<<"0", ".", "2">>)>> :
        pair \in Pairs, amount \in AmountStrings, discount \in DiscountStrings}

CollateralElems == {[fields |-> f] : f \in CollateralFields}

PositionCalls ==
    [fn : {"Position.from_json"}, elem : PositionElems, prices : PriceMaps]

CollateralCalls ==
    [fn : {"Collateral.from_json"}, elem : CollateralElems, prices : PriceMaps]

\* Request records.  Status codes and discriminants range over the declared
\* codes and beyond them.
MaxStatus == 7
MaxVariant == 3
MaxDiscriminant == 3

Digit(k) == <<DigitChars[k + 1]>>

StatusStrings == {<<"-", "1">>} \cup {Digit(k) : k \in 0..MaxStatus}

\* A nested price-limit or slippage-limit enum: discriminant and payload.
LimitJsons ==
    {[variant_id |-> Digit(0), fields |-> <<>>]}
    \cup {[variant_id |-> Digit(k), fields |-> f] :
            k \in 1..MaxDiscriminant, f \in {<<>>, <<Str(<<"1", "0", "0">>)>>}}

List(items) == [elements |-> items]

MarginOrderInners ==
    {<<Str("BTC/USD"), Str(size), [value |-> FALSE], price, slippage,
       List(<<Str(<<"7">>)>>), List(<<>>)>> :
        size \in SizeStrings, price \in LimitJsons, slippage \in LimitJsons}

RemoveCollateralInners ==
    {<<Str("account_a"), List(claims)>> :
        claims \in {<<>>,
                    <<[fields |-> <<Str("resource_xrd"), Str(<<"2", ".", "5">>)>>]>>}}

\* What follows the discriminant of the request-type enum: a list holding one
\* struct, or, for a variant this client does not know, possibly nothing or a
\* plain value.
OtherPayloads ==
    {<<>>, <<Str(<<"1">>)>>, <<[fields |-> <<>>]>>,
     <<[fields |-> <<Str(<<"1">>)>>]>>}

RequestTypeJsons ==
    {[variant_id |-> Digit(0), fields |-> <<[fields |-> inner]>>] :
        inner \in RemoveCollateralInners}
    \cup {[variant_id |-> Digit(1), fields |-> <<[fields |-> inner]>>] :
        inner \in MarginOrderInners}
    \cup {[variant_id |-> Digit(k), fields |-> payload] :
        k \in 2..MaxVariant, payload \in OtherPayloads}

RequestElems ==
    {[fields |-> <<Str(<<"4", "2">>), type, Str(<<"1", "7", "0", "0">>),
                   Str(<<"1", "8", "0", "0">>), Str(status)>>] :
        type \in RequestTypeJsons, status \in StatusStrings}

RequestCalls == [fn : {"Request.from_json"}, elem : RequestElems]

\* Field arrays shorter than declared: every prefix of a complete array.
SamplePositionFields ==
    <<Str("BTC/USD"), Str(<<"2">>), Str(<<"0", ".", "1">>), Str(<<"0", ".", "0", "5">>),
      Str(<<"1", "5", "0">>), Str(<<"1", ".", "5">>)>>

SampleCollateralFields ==
    <<Str("ETH/USD"), Str("resource_xrd"), Str(<<"1", "0">>), Str(<<"0", ".", "9">>),
      Str(<<"0", ".", "2">>)>>

SamplePoolDetails ==
    <<Str(<<"1", "0", "0", "0">>), Str(<<"9", "0", "0">>), Str(<<"1", ".", "5">>),
      Str(<<"-", "3">>), Str(<<"0", ".", "1">>), Str(<<"0", ".", "2">>),
      Str(<<"5", "0", "0">>), Str(<<"2">>)>>

\* The 17 fields of a pair config, in the order of PairConfig.from_json.
PairConfigFields(pair, funding_1, funding_2, pool_0, pool_1, share) ==
    <<Str(pair), Str(<<"6", "0">>), Str(<<"1", "0", "0">>), Str(<<"0", ".", "0", "1">>),
      Str(<<"0", ".", "0", "0", "5">>), Str(<<"3", "6", "0", "0">>),
      Str(<<"0", ".", "1">>), Str(<<"0", ".", "0", "5">>),
      Str(funding_1), Str(funding_2), Str(<<"0", ".", "5">>), Str(<<"0", ".", "2", "5">>),
      Str(pool_0), Str(pool_1), Str(share),
      Str(<<"0", ".", "0", "0", "1">>), Str(<<"0", ".", "0", "0", "2">>)>>

PairConfigFieldArrays(pair) ==
    { PairConfigFields(pair, <<"0", ".", "0", "0", "0", "1">>,
                       <<"0", ".", "0", "0", "0", "0", "5">>,
                       <<"0">>, <<"0">>, <<"0", ".", "1">>),
      PairConfigFields(pair, <<"0", ".", "0", "0", "0", "2">>,
                       <<"0", ".", "0", "0", "0", "1">>,
                       <<"0", ".", "0", "0", "1">>, <<"0", ".", "0", "0", "0", "5">>,
                       <<"0", ".", "2", "5">>) }

OIStrings == {<<"0">>, <<"5">>, <<"1", "0">>}
RawStrings == {<<"-", "1", "5", "0", "0">>, <<"0">>, <<"1", "0", "0", "0">>}

\* A pool position: oi_long, oi_short, cost, two fields this client does not
\* read, funding_2_raw, and possibly more.
PoolPositionFields ==
    {<<Str(oi_long), Str(oi_short), Str(<<"7", "5", "0">>), Str(<<"0">>), Str(<<"0">>),
       Str(funding_2_raw), Str(<<"0">>)>> :
        oi_long \in OIStrings, oi_short \in OIStrings, funding_2_raw \in RawStrings}

SamplePoolPosition ==
    <<Str(<<"1", "0">>), Str(<<"5">>), Str(<<"7", "5", "0">>), Str(<<"0">>), Str(<<"0">>),
      Str(<<"1", "0", "0", "0">>), Str(<<"0">>)>>

PairDetailsElems ==
    {[fields |-> <<Str(pair), [fields |-> pool_position], [fields |-> config]>>] :
        pair \in Pairs, pool_position \in PoolPositionFields,
        config \in PairConfigFieldArrays("BTC/USD")}
    \cup {[fields |-> <<Str("BTC/USD"), [fields |-> pool_position],
                        [fields |-> config]>>] :
        pool_position \in Prefixes(SamplePoolPosition),
        config \in PairConfigFieldArrays("BTC/USD")}
    \cup {[fields |-> <<Str("BTC/USD"), [fields |-> SamplePoolPosition],
                        [fields |-> config]>>] :
        config \in UNION {Prefixes(c) : c \in PairConfigFieldArrays("BTC/USD")}}

FullPriceMaps == [Pairs -> PriceValues \ {Zero}]

ShortArrayCalls ==
    [fn : {"Position.from_json"},
     elem : {[fields |-> f] : f \in Prefixes(SamplePositionFields)},
     prices : FullPriceMaps]
    \cup [fn : {"Collateral.from_json"},
          elem : {[fields |-> f] : f \in Prefixes(SampleCollateralFields)},
          prices : FullPriceMaps]
    \cup [fn : {"PoolDetails.from_json"}, result : Prefixes(SamplePoolDetails)]
    \cup [fn : {"PairConfig.from_json"},
          fields : UNION {Prefixes(c) : c \in PairConfigFieldArrays("ETH/USD")}]

PairDetailsCalls ==
    [fn : {"PairDetails.from_json"}, elem : PairDetailsElems, prices : PriceMaps]

DecodeCalls ==
    PositionCalls \cup CollateralCalls \cup RequestCalls \cup ShortArrayCalls
    \cup PairDetailsCalls

(***************************************************************************)
(* Specification of one call of a decoder.                                 *)
(***************************************************************************)
InitDecode ==
    /\ funding_args = ScenarioArgs
    /\ funding_ret = NotCalled
    /\ overview_args = NoOverviewArgs
    /\ overview_ret = NotCalled
    /\ decode_args \in DecodeCalls
    /\ decode_ret = NotCalled
    /\ write = NoWrite
    /\ gateway = NoGateway
    /\ query = NoQuery

DecodeUnchanged == UNCHANGED <<funding_args, funding_ret, overview_args, overview_ret,
                               decode_args, write, gateway, query>>

PositionFromJson ==
    /\ decode_args.fn = "Position.from_json"
    /\ decode_ret = NotCalled
    /\ decode_ret' = Position_from_json(decode_args.elem, decode_args.prices)
    /\ DecodeUnchanged

CollateralFromJson ==
    /\ decode_args.fn = "Collateral.from_json"
    /\ decode_ret = NotCalled
    /\ decode_ret' = Collateral_from_json(decode_args.elem, decode_args.prices)
    /\ DecodeUnchanged

RequestFromJson ==
    /\ decode_args.fn = "Request.from_json"
    /\ decode_ret = NotCalled
    /\ decode_ret' = Request_from_json(decode_args.elem)
    /\ DecodeUnchanged

PoolDetailsFromJson ==
    /\ decode_args.fn = "PoolDetails.from_json"
    /\ decode_ret = NotCalled
    /\ decode_ret' = PoolDetails_from_json(decode_args.result)
    /\ DecodeUnchanged

PairConfigFromJson ==
    /\ decode_args.fn = "PairConfig.from_json"
    /\ decode_ret = NotCalled
    /\ decode_ret' = PairConfig_from_json(decode_args.fields)
    /\ DecodeUnchanged

PairDetailsFromJson ==
    /\ decode_args.fn = "PairDetails.from_json"
    /\ decode_ret = NotCalled
    /\ decode_ret' = PairDetails_from_json(decode_args.elem, decode_args.prices)
    /\ DecodeUnchanged

NextDecode ==
    \/ PositionFromJson
    \/ CollateralFromJson
    \/ RequestFromJson
    \/ PoolDetailsFromJson
    \/ PairConfigFromJson
    \/ PairDetailsFromJson

SpecDecode == InitDecode /\ [][NextDecode]_vars

(***************************************************************************)
(* Properties of the decoders, checked under SpecDecode.                   *)
(***************************************************************************)
DecodeCalled == decode_ret.status # "not_called"
DecodeReturned == decode_ret.status = "returned"
DecodeRaised == decode_ret.status = "raised"
Decoding(fn) == decode_args.fn = fn /\ DecodeCalled

\* The numeric value of field i of the decoded record under valuation.
FieldValue(i) == float(decode_args.elem.fields[i + 1].value)
FieldPair == decode_args.elem.fields[1].value
HasPrice == FieldPair \in DOMAIN decode_args.prices
MarkPrice == decode_args.prices[FieldPair]

\* C11: for a position (pair, size, margin_share, margin_maintenance_share,
\* cost, funding_paid) with size # 0 and cost # 0 and mark price p =
\* prices[pair], Position.from_json returns value = size * p, margin =
\* margin_share * p, margin_maintenance = margin_maintenance_share * p,
\* entry_price = cost / size, pnl = value - cost - funding_paid and
\* roi = pnl / |cost| * 100.
C11_PositionValuation ==
    (/\ Decoding("Position.from_json")
     /\ Len(decode_args.elem.fields) = 6
     /\ HasPrice
     /\ FieldValue(1) # Zero
     /\ FieldValue(4) # Zero) =>
        /\ DecodeReturned
        /\ decode_ret.value.value = RMul(FieldValue(1), MarkPrice)
        /\ decode_ret.value.margin = RMul(FieldValue(2), MarkPrice)
        /\ decode_ret.value.margin_maintenance = RMul(FieldValue(3), MarkPrice)
        /\ decode_ret.value.entry_price = RDiv(FieldValue(4), FieldValue(1))
        /\ decode_ret.value.pnl =
               RSub(RSub(RMul(FieldValue(1), MarkPrice), FieldValue(4)), FieldValue(5))
        /\ decode_ret.value.roi =
               RMul(RDiv(decode_ret.value.pnl, RAbs(FieldValue(4))), R(100))

C11_Witness ==
    /\ Decoding("Position.from_json")
    /\ DecodeReturned
    /\ RLt(decode_ret.value.size, Zero)
    /\ RLt(FieldValue(4), Zero)
    /\ FieldValue(5) # Zero
    /\ MarkPrice # Zero
    /\ decode_ret.value.roi # Zero
    /\ decode_ret.value.pnl # RSub(decode_ret.value.value, FieldValue(4))

\* C12 (as claimed): size # 0 is the only precondition of position valuation:
\* every position record with size # 0, whatever its cost (0 included), whose
\* pair has a price, is valued without error.
C12_SizeIsOnlyPrecondition ==
    (/\ Decoding("Position.from_json")
     /\ Len(decode_args.elem.fields) = 6
     /\ HasPrice
     /\ FieldValue(1) # Zero) => DecodeReturned

\* C12 (amended): size # 0 and cost # 0 are the preconditions of position
\* valuation: a position record whose pair has a price is valued without error
\* exactly when size # 0 and cost # 0; with size = 0 (entry_price = cost /
\* size) or cost = 0 (roi = pnl / |cost|) the call raises ZeroDivisionError.
C12_SizeAndCostPreconditions ==
    (/\ Decoding("Position.from_json")
     /\ Len(decode_args.elem.fields) = 6
     /\ HasPrice) =>
        /\ DecodeReturned <=> (FieldValue(1) # Zero /\ FieldValue(4) # Zero)
        /\ ~DecodeReturned => decode_ret.error = "ZeroDivisionError"

C12_Witness ==
    /\ Decoding("Position.from_json")
    /\ DecodeRaised
    /\ decode_ret.error = "ZeroDivisionError"
    /\ HasPrice
    /\ FieldValue(1) # Zero
    /\ FieldValue(4) = Zero

\* C13: for every collateral record (pair, resource, amount, discount,
\* margin_share) whose pair has a price p, Collateral.from_json returns
\* value = amount * p, value_discounted = value * discount and margin =
\* margin_share * p and has no error outcome; hence for amount >= 0, p >= 0 and
\* 0 <= discount <= 1, 0 <= value_discounted <= value.
C13_CollateralValuation ==
    (/\ Decoding("Collateral.from_json")
     /\ Len(decode_args.elem.fields) = 5
     /\ HasPrice) =>
        /\ DecodeReturned
        /\ decode_ret.value.value = RMul(FieldValue(2), MarkPrice)
        /\ decode_ret.value.value_discounted =
               RMul(RMul(FieldValue(2), MarkPrice), FieldValue(3))
        /\ decode_ret.value.margin = RMul(FieldValue(4), MarkPrice)
        /\ (/\ RLe(Zero, FieldValue(2))
            /\ RLe(Zero, MarkPrice)
            /\ RLe(Zero, FieldValue(3))
            /\ RLe(FieldValue(3), R(1))) =>
               /\ RLe(Zero, decode_ret.value.value_discounted)
               /\ RLe(decode_ret.value.value_discounted, decode_ret.value.value)

C13_Witness ==
    /\ Decoding("Collateral.from_json")
    /\ DecodeReturned
    /\ RLt(Zero, decode_ret.value.value_discounted)
    /\ RLt(decode_ret.value.value_discounted, decode_ret.value.value)
    /\ decode_ret.value.amount # decode_ret.value.value
    /\ decode_ret.value.margin # Zero

\* The fields of the request record under classification.
RequestFields == decode_args.elem.fields
RequestVariant == int(RequestFields[2].variant_id)
RequestStatusCode == int(RequestFields[5].value)
RequestInner == RequestFields[2].fields[1].fields
WithStatus(elem, status) == [elem EXCEPT !.fields[5] = Str(status)]

\* C16: Request.from_json maps status code 0 to Dormant, 1 to Active, 2 to
\* Executed, 3 to Canceled, 4 to Expired, 5 to Failed and every other code,
\* negative or above 5, to Unknown; Unknown is returned for no code in 0..5,
\* and no status code makes the call raise (a call raises only if it raises
\* for status code 0 as well).
C16_StatusClassification ==
    Decoding("Request.from_json") =>
        /\ DecodeReturned =>
            LET code == RequestStatusCode
                status == decode_ret.value.status
            IN  /\ code = 0 => status = "Dormant"
                /\ code = 1 => status = "Active"
                /\ code = 2 => status = "Executed"
                /\ code = 3 => status = "Canceled"
                /\ code = 4 => status = "Expired"
                /\ code = 5 => status = "Failed"
                /\ (code < 0 \/ code > 5) <=> status = "Unknown"
        /\ decode_ret.status =
               Request_from_json(WithStatus(decode_args.elem, <<"0">>)).status

C16_Witness ==
    /\ Decoding("Request.from_json")
    /\ DecodeReturned
    /\ RequestStatusCode > 5
    /\ decode_ret.value.status = "Unknown"
    /\ decode_ret.value.type = "Stop Short"

\* C17: for a margin order (request-type variant 1) the derived type is fixed
\* by the price-limit kind and size >= 0: (None, size >= 0) Market Long,
\* (None, size < 0) Market Short, (Gte, size >= 0) Stop Long, (Lte, size < 0)
\* Limit Short, (Lte, size >= 0) Limit Long, (Gte, size < 0) Stop Short; size =
\* 0 counts as long, and the type is never Unknown nor Remove Collateral.
C17_OrderTypeTable ==
    (Decoding("Request.from_json") /\ DecodeReturned /\ RequestVariant = 1) =>
        LET kind == decode_ret.value.request_details.limit_price.type
            long == ~RLt(float(RequestInner[2].value), Zero)
            type == decode_ret.value.type
        IN  /\ (kind = "NONE" /\ long) => type = "Market Long"
            /\ (kind = "NONE" /\ ~long) => type = "Market Short"
            /\ (kind = "GTE" /\ long) => type = "Stop Long"
            /\ (kind = "LTE" /\ ~long) => type = "Limit Short"
            /\ (kind = "LTE" /\ long) => type = "Limit Long"
            /\ (kind = "GTE" /\ ~long) => type = "Stop Short"
            /\ type \notin {"Unknown", "Remove Collateral"}
            /\ kind \in {"NONE", "GTE", "LTE"}

C17_Witness ==
    /\ Decoding("Request.from_json")
    /\ DecodeReturned
    /\ RequestVariant = 1
    /\ decode_ret.value.request_details.size = Zero
    /\ decode_ret.value.request_details.limit_price.type = "GTE"
    /\ decode_ret.value.type = "Stop Long"

\* C18: a request whose request-type variant is neither 0 nor 1 is classified
\* without failing whatever follows the discriminant, an empty field list
\* included: the result has type Unknown, request_details None, and the
\* record's index, submission, expiry and mapped status.
C18_UnknownVariantNeverFails ==
    (Decoding("Request.from_json") /\ RequestVariant \notin {0, 1}) =>
        /\ DecodeReturned
        /\ decode_ret.value.type = "Unknown"
        /\ decode_ret.value.request_details = "None"
        /\ decode_ret.value.index = RequestFields[1].value
        /\ decode_ret.value.submission = RequestFields[3].value
        /\ decode_ret.value.expiry = RequestFields[4].value
        /\ decode_ret.value.status = status_of(RequestStatusCode)

\* The discriminants of the nested price-limit and slippage-limit enums.
PriceDiscriminant == int(RequestInner[4].variant_id)
SlippageDiscriminant == int(RequestInner[5].variant_id)

\* C19: a margin order whose price-limit or slippage-limit discriminant is
\* outside {0, 1, 2} is decoded without failing, the unrecognized discriminant
\* is never decoded as Gte/Lte (price limit) or Percent/Absolute (slippage
\* limit), and such a request is never labelled Limit Long or Limit Short.
C19_UnknownDiscriminantIsSentinel ==
    (/\ Decoding("Request.from_json")
     /\ RequestVariant = 1
     /\ (PriceDiscriminant \notin {0, 1, 2} \/ SlippageDiscriminant \notin {0, 1, 2})) =>
        /\ DecodeReturned
        /\ PriceDiscriminant \notin {0, 1, 2} =>
               decode_ret.value.request_details.limit_price.type \notin {"GTE", "LTE"}
        /\ SlippageDiscriminant \notin {0, 1, 2} =>
               decode_ret.value.request_details.limit_slippage.type
                   \notin {"PERCENT", "ABSOLUTE"}
        /\ decode_ret.value.type \notin {"Limit Long", "Limit Short"}

\* The field array a call decodes positionally and its declared length (for a
\* pair's details: the pool position, read up to index 5, and the pair config).
DecodedArray ==
    CASE decode_args.fn = "Position.from_json" -> decode_args.elem.fields
      [] decode_args.fn = "Collateral.from_json" -> decode_args.elem.fields
      [] decode_args.fn = "PoolDetails.from_json" -> decode_args.result
      [] decode_args.fn = "PairConfig.from_json" -> decode_args.fields
      [] decode_args.fn = "PairDetails.from_json" -> decode_args.elem.fields[2].fields
      [] OTHER -> <<>>

DeclaredLength ==
    CASE decode_args.fn = "Position.from_json" -> 6
      [] decode_args.fn = "Collateral.from_json" -> 5
      [] decode_args.fn = "PoolDetails.from_json" -> 8
      [] decode_args.fn = "PairConfig.from_json" -> 17
      [] decode_args.fn = "PairDetails.from_json" -> 6
      [] OTHER -> 0

ShortArray ==
    \/ Len(DecodedArray) < DeclaredLength
    \/ /\ decode_args.fn = "PairDetails.from_json"
       /\ Len(decode_args.elem.fields[3].fields) < 17

\* C15 (as claimed): decoding a position, collateral, pair config, pool details
\* or pool position from a field array shorter than declared fails with a
\* DecodeError that names the expected field and the record type, and returns
\* no record.
C15_ShortArrayDecodeError ==
    (DecodeCalled /\ ShortArray) =>
        /\ DecodeRaised
        /\ decode_ret.error = "DecodeError"
        /\ decode_ret.arg = [record |-> decode_args.fn, field |-> Len(DecodedArray)]

\* C15 (amended): decoding a position (6 fields), collateral (5), pair config
\* (17), pool details (8) or pool position (at least 6) from a field array
\* shorter than declared fails with Python's IndexError, whose only content is
\* "list index out of range" (neither the field nor the record type), and never
\* returns a partially populated record; an array of the declared length never
\* fails this way.
C15_ShortArrayIndexError ==
    (DecodeCalled /\ DeclaredLength > 0) =>
        /\ ShortArray =>
            /\ DecodeRaised
            /\ decode_ret.error = "IndexError"
            /\ decode_ret.arg = "list index out of range"
        /\ ~ShortArray => (DecodeRaised => decode_ret.error # "IndexError")

C15_Witness ==
    /\ decode_args.fn = "PairDetails.from_json"
    /\ Len(DecodedArray) = 5
    /\ DecodeRaised
    /\ decode_ret.error = "IndexError"

(***************************************************************************)
(* Input space of the batch decoders: an account, a list of pairs.         *)
(***************************************************************************)
PositionElem(pair, size, cost) ==
    [fields |-> <<Str(pair), Str(size), Str(<<"0", ".", "1">>),
                  Str(<<"0", ".", "0", "5">>), Str(cost), Str(<<"1", ".", "5">>)>>]

AccountPositionElems ==
    { PositionElem("BTC/USD", <<"2">>, <<"1", "5", "0">>),
      PositionElem("ETH/USD", <<"-", "0", ".", "5">>, <<"-", "4", "0">>),
      PositionElem("BTC/USD", <<"2">>, <<"0">>) }

AccountCollateralElems ==
    { [fields |-> <<Str("BTC/USD"), Str("resource_xbtc"), Str(<<"2", ".", "5">>),
                    Str(<<"0", ".", "9">>), Str(<<"0", ".", "2">>)>>],
      [fields |-> <<Str("ETH/USD"), Str("resource_xeth"), Str(<<"1", "0">>),
                    Str(<<"1">>), Str(<<"0", ".", "2">>)>>] }

RequestElem(type, status) ==
    [fields |-> <<Str(<<"4", "2">>), type, Str(<<"1", "7", "0", "0">>),
                  Str(<<"1", "8", "0", "0">>), Str(status)>>]

SampleMarginOrder ==
    RequestElem([variant_id |-> Digit(1),
                 fields |-> <<[fields |->
                     <<Str("BTC/USD"), Str(<<"2">>), [value |-> FALSE],
                       [variant_id |-> Digit(2), fields |-> <<Str(<<"1", "0", "0">>)>>],
                       [variant_id |-> Digit(0), fields |-> <<>>],
                       List(<<>>), List(<<>>)>>]>>],
                <<"1">>)

SampleRemoveCollateral ==
    RequestElem([variant_id |-> Digit(0),
                 fields |-> <<[fields |-> <<Str("account_a"), List(<<>>)>>]>>],
                <<"2">>)

AccountResults ==
    {<<Str(balance), List(positions), List(collaterals), Str(<<"4", "0">>),
       List(active), List(history)>> :
        balance \in {<<"1", "0", "0">>, <<"-", "2", ".", "5">>},
        positions \in SeqsUpTo(AccountPositionElems, MaxLen),
        collaterals \in SeqsUpTo(AccountCollateralElems, MaxLen),
        active \in {<<>>, <<SampleMarginOrder>>},
        history \in {<<>>, <<SampleRemoveCollateral, SampleMarginOrder>>}}

PairDetailsElem(pair, oi_long, oi_short) ==
    [fields |-> <<Str(pair),
                  [fields |-> <<Str(oi_long), Str(oi_short), Str(<<"7", "5", "0">>),
                                Str(<<"0">>), Str(<<"0">>), Str(<<"1", "0", "0", "0">>)>>],
                  [fields |-> PairConfigFields(pair, <<"0", ".", "0", "0", "0", "1">>,
                                               <<"0", ".", "0", "0", "0", "0", "5">>,
                                               <<"0", ".", "0", "0", "1">>, <<"0">>,
                                               <<"0", ".", "1">>)]>>]

PairElems ==
    { PairDetailsElem("BTC/USD", <<"1", "0">>, <<"5">>),
      PairDetailsElem("ETH/USD", <<"5">>, <<"5">>),
      PairDetailsElem("ETH/USD", <<"0">>, <<"1", "0">>) }

AccountCalls ==
    [fn : {"AccountDetails.from_json"}, result : AccountResults, prices : PriceMaps]
    \cup [fn : {"Exchange.pair_details"}, elements : SeqsUpTo(PairElems, MaxLen),
          prices : PriceMaps]

(***************************************************************************)
(* Specification of one call of a batch decoder.                           *)
(***************************************************************************)
InitAccount ==
    /\ funding_args = ScenarioArgs
    /\ funding_ret = NotCalled
    /\ overview_args = NoOverviewArgs
    /\ overview_ret = NotCalled
    /\ decode_args \in AccountCalls
    /\ decode_ret = NotCalled
    /\ write = NoWrite
    /\ gateway = NoGateway
    /\ query = NoQuery

AccountDetailsFromJson ==
    /\ decode_args.fn = "AccountDetails.from_json"
    /\ decode_ret = NotCalled
    /\ decode_ret' = AccountDetails_from_json(decode_args.result, decode_args.prices)
    /\ DecodeUnchanged

PairDetailsList ==
    /\ decode_args.fn = "Exchange.pair_details"
    /\ decode_ret = NotCalled
    /\ decode_ret' = Exchange_pair_details(decode_args.elements, decode_args.prices)
    /\ DecodeUnchanged

NextAccount ==
    \/ AccountDetailsFromJson
    \/ PairDetailsList

SpecAccount == InitAccount /\ [][NextAccount]_vars

(***************************************************************************)
(* Properties of the batch decoders, checked under SpecAccount.            *)
(***************************************************************************)
\* The records a batch call values, in the order it values them.
BatchElems ==
    IF decode_args.fn = "AccountDetails.from_json"
    THEN decode_args.result[2].elements \o decode_args.result[3].elements
    ELSE IF decode_args.fn = "Exchange.pair_details"
    THEN decode_args.elements
    ELSE <<>>

PairOf(elem) == elem.fields[1].value
BatchPairs == {PairOf(BatchElems[i]) : i \in 1..Len(BatchElems)}
MissingPairs == BatchPairs \ DOMAIN decode_args.prices

\* A record whose own valuation divides by zero: a position with size = 0 or
\* cost = 0, a pair with open interest on both sides and a price of 0.
Unvaluable(elem) ==
    \/ /\ decode_args.fn = "AccountDetails.from_json"
       /\ Len(elem.fields) = 6
       /\ (float(elem.fields[2].value) = Zero \/ float(elem.fields[5].value) = Zero)
    \/ /\ decode_args.fn = "Exchange.pair_details"
       /\ PairOf(elem) \in DOMAIN decode_args.prices
       /\ decode_args.prices[PairOf(elem)] = Zero
       /\ float(elem.fields[2].fields[1].value) # Zero
       /\ float(elem.fields[2].fields[2].value) # Zero

\* The valued records of a returned batch.
BatchValued ==
    IF decode_args.fn = "AccountDetails.from_json"
    THEN decode_ret.value.positions \o decode_ret.value.collaterals
    ELSE decode_ret.value

PairFundingComputed ==
    /\ Decoding("PairDetails.from_json")
    /\ DecodeCalled
    /\ (DecodeReturned \/ decode_ret.error = "ZeroDivisionError")

PairPoolPosition == decode_args.elem.fields[2].fields
PairOILong == float(PairPoolPosition[1].value)
PairOIShort == float(PairPoolPosition[2].value)
PairRaw == float(PairPoolPosition[6].value)
PairPrice == decode_args.prices[FieldPair]
PairConfigOf == PairConfig_from_json(decode_args.elem.fields[3].fields).value

\* calculate_funding_rates on the values PairDetails.from_json decoded.
ReferenceFunding ==
    calculate_funding_rates(PairOILong, PairOIShort,
                            RMul(RSub(PairOILong, PairOIShort), PairPrice),
                            PairRaw, PairPrice, PairConfigOf)

FundingFields ==
    {"funding_1", "funding_2", "funding_2_raw", "funding_2_max", "funding_2_min",
     "funding_long_apr", "funding_long_24h", "funding_short_apr", "funding_short_24h",
     "funding_pool_24h"}

\* C21: for every pool position, price and pair config, PairDetails.from_json
\* fails in its funding computation exactly when calculate_funding_rates, called
\* with the same values and skew = (oi_long - oi_short) * price, fails, and
\* otherwise its ten funding fields equal those calculate_funding_rates returns.
C21_FundingImplementationsAgree ==
    PairFundingComputed =>
        /\ DecodeReturned <=> ReferenceFunding.status = "returned"
        /\ DecodeRaised <=> ReferenceFunding.status = "raised"
        /\ DecodeRaised => decode_ret.error = ReferenceFunding.error
        /\ DecodeReturned =>
               \A f \in FundingFields : decode_ret.value[f] = ReferenceFunding.value[f]

C21_Witness ==
    /\ PairFundingComputed
    /\ DecodeReturned
    /\ PairOILong # Zero
    /\ PairOIShort # Zero
    /\ PairOILong # PairOIShort
    /\ PairPrice = R(100)
    /\ decode_ret.value.funding_1 # Zero
    /\ decode_ret.value.funding_2 # Zero
    /\ decode_ret.value.funding_pool_24h # Zero
    /\ decode_ret.value.funding_long_apr = ReferenceFunding.value.funding_long_apr
    /\ decode_ret.value.funding_long_apr # decode_ret.value.funding_short_apr

(***************************************************************************)
(* Consistency of a decoded account, checked under SpecAccount.            *)
(***************************************************************************)
AccountReturned ==
    /\ decode_args.fn = "AccountDetails.from_json"
    /\ DecodeReturned

\* Whether the returned list is the input array decoded item by item, in order.
DecodedInOrder(returned, elems, outcome_of(_)) ==
    /\ Len(returned) = Len(elems)
    /\ \A i \in 1..Len(elems) : returned[i] = outcome_of(elems[i]).value

\* C22: for every successfully decoded account, the returned overview equals
\* AccountOverview.from_positions_and_collaterals applied to the returned
\* balance, positions and collaterals (so overview.balance = balance), and the
\* returned positions, collaterals, active_requests and requests_history have
\* the length and the order of the corresponding input element arrays.
C22_AccountInternallyConsistent ==
    AccountReturned =>
        LET account == decode_ret.value
            result == decode_args.result
            prices == decode_args.prices
            position_of(elem) == Position_from_json(elem, prices)
            collateral_of(elem) == Collateral_from_json(elem, prices)
            request_of(elem) == Request_from_json(elem)
        IN  /\ account.overview =
                   from_positions_and_collaterals(account.balance, account.positions,
                                                  account.collaterals).value
            /\ account.overview.balance = account.balance
            /\ account.balance = float(result[1].value)
            /\ DecodedInOrder(account.positions, result[2].elements, position_of)
            /\ DecodedInOrder(account.collaterals, result[3].elements, collateral_of)
            /\ DecodedInOrder(account.active_requests, result[5].elements, request_of)
            /\ DecodedInOrder(account.requests_history, result[6].elements, request_of)

C22_Witness ==
    /\ AccountReturned
    /\ Len(decode_ret.value.positions) = 2
    /\ decode_ret.value.positions[1].pair = "BTC/USD"
    /\ decode_ret.value.positions[2].pair = "ETH/USD"
    /\ Len(decode_ret.value.collaterals) = 2
    /\ decode_ret.value.collaterals[1].pair = "ETH/USD"
    /\ decode_ret.value.collaterals[2].pair = "BTC/USD"
    /\ Len(decode_ret.value.requests_history) = 2
    /\ decode_ret.value.requests_history[1] # decode_ret.value.requests_history[2]
    /\ decode_ret.value.overview.balance = Frac(-5, 2)
    /\ decode_ret.value.overview.total_pnl # Zero
    /\ decode_ret.value.overview.total_collateral_value # Zero

(***************************************************************************)
(* Write operations of Exchange: one call, the requests it sends to the    *)
(* gateway and the responses the gateway gives.  A step of the client is   *)
(* the code between two awaits of a response; the gateway answers the      *)
(* outstanding request with any response.                                  *)
(***************************************************************************)
MaxPolls == 3
MaxEpoch == 2
MaxNonce == 1

\* Python's None, and a local that is not assigned yet.
None == [kind |-> "None"]
Unassigned == "unassigned"
NoResponse == [status |-> 0]

\* api.py, lines 31 and 33
NotFound == 404
ErrorFloor == 400

\* Api._handle_response, line 31: a 404 is decoded as None.
is_not_found_never(status) == FALSE

is_not_found(status) == status = NotFound

\* Api._handle_response (api.py, lines 30-42)
handle_response(response) ==
    IF is_not_found(response.status)
    THEN Return(None)
    ELSE IF response.status >= ErrorFloor
    THEN Raise("Exception", "API request failed")
    ELSE IF response.body.kind = "invalid"
    THEN Raise("Exception", "Invalid JSON response from API")
    ELSE Return(response.body)

WriteOperations ==
    {"create_margin_account", "create_recovery_key", "add_collateral",
     "remove_collateral_request", "margin_order_request",
     "margin_order_tp_sl_request", "cancel_requests"}

\* Gateway.build_transaction, lines 142-160: the notarized transaction, its
\* intent hash and its compiled payload.
NotarizedTransaction(manifest, epoch, nonce) ==
    [manifest |-> manifest, start_epoch_inclusive |-> epoch, nonce |-> nonce]
intent_hash_without_nonce(transaction) ==
    [intent_hash_of |-> [transaction EXCEPT !.nonce = 0]]

intent_hash(transaction) == [intent_hash_of |-> transaction]
compile(transaction) == [compiled |-> transaction]

\* The requests the client posts (gateway.py, lines 20, 38, 73-78, 80-88).
LedgerStateRequest == [endpoint |-> "transaction/construction", body |-> [kind |-> "empty"]]
NetworkConfigurationRequest ==
    [endpoint |-> "status/network-configuration", body |-> [kind |-> "empty"]]
SubmitRequest(payload) ==
    [endpoint |-> "transaction/submit", body |-> [notarized_transaction_hex |-> payload]]
DetailsRequest(intent) ==
    [endpoint |-> "transaction/committed-details", body |-> [intent_hash |-> intent]]

\* Api.post: the request goes out and its response is awaited.
post(request) == [requests |-> Append(gateway.requests, request), response |-> NoResponse]
LastRequest == gateway.requests[Len(gateway.requests)]
Awaiting == gateway.requests # <<>> /\ gateway.response = NoResponse
Answered == gateway.response # NoResponse

\* The responses of the gateway.
Ok(body) == [status |-> 200, body |-> body]
Failure(status) == [status |-> status, body |-> [kind |-> "object"]]
TransactionStatuses == {"CommittedSuccess", "CommittedFailure", "Rejected"}
NewEntities ==
    {<<>>, <<[entity_address |-> "component_a"], [entity_address |-> "component_b"]>>}
CommittedDetails ==
    {[kind |-> "object",
      transaction |-> [transaction_status |-> status,
                       receipt |-> [state_updates |-> [new_global_entities |-> entities]]]] :
        status \in TransactionStatuses, entities \in NewEntities}
LedgerStates ==
    {[kind |-> "object", ledger_state |-> [network |-> network, epoch |-> epoch]] :
        network \in {"mainnet", "stokenet", "localnet"}, epoch \in 1..MaxEpoch}
NetworkConfigurations ==
    {[kind |-> "object", network_id |-> 1,
      ed25519_virtual_badge |-> "resource_ed25519_badge"]}
Failures == {Failure(NotFound), Failure(500)}

ResponsesTo(request) ==
    IF request.endpoint = "transaction/construction"
    THEN {Ok(body) : body \in LedgerStates} \cup Failures
    ELSE IF request.endpoint = "status/network-configuration"
    THEN {Ok(body) : body \in NetworkConfigurations} \cup Failures
    ELSE IF request.endpoint = "transaction/submit"
    THEN {Ok([kind |-> "object", duplicate |-> FALSE])} \cup Failures
    ELSE {Ok(body) : body \in CommittedDetails}
         \cup {Ok(None), Ok([kind |-> "invalid"])} \cup Failures

\* The committed-details queries the gateway has received so far.
DetailsQueries ==
    {i \in 1..Len(gateway.requests) :
        gateway.requests[i].endpoint = "transaction/committed-details"}

StartOf(op) ==
    [op |-> op, pc |-> "start", payload |-> None, intent |-> None, details |-> None,
     status |-> Unassigned, outcome |-> NotCalled]

\* The call ends: it returns or it raises to its caller.
Ended(outcome) == [write EXCEPT !.pc = "done", !.outcome = outcome]

WriteUnchanged ==
    UNCHANGED <<funding_args, funding_ret, overview_args, overview_ret,
                decode_args, decode_ret, query>>

InitWrite ==
    /\ funding_args = ScenarioArgs
    /\ funding_ret = NotCalled
    /\ overview_args = NoOverviewArgs
    /\ overview_ret = NotCalled
    /\ decode_args = NoDecodeArgs
    /\ decode_ret = NotCalled
    /\ write \in {StartOf(op) : op \in WriteOperations}
    /\ gateway = NoGateway
    /\ query = NoQuery

\* The operation up to its first await: create_margin_account asks for the
\* network configuration (exchange.py line 206), the others go to
\* build_transaction, which asks for the ledger state (gateway.py line 133).
Call ==
    /\ write.pc = "start"
    /\ IF write.op = "create_margin_account"
       THEN /\ gateway' = post(NetworkConfigurationRequest)
            /\ write' = [write EXCEPT !.pc = "network_configuration"]
       ELSE /\ gateway' = post(LedgerStateRequest)
            /\ write' = [write EXCEPT !.pc = "ledger_state"]
    /\ WriteUnchanged

\* The gateway answers the outstanding request.  The 404 and null answers to
\* a committed-details query are capped at MaxPolls queries.
GatewayAnswers ==
    /\ write.pc \notin {"idle", "start", "done"}
    /\ Awaiting
    /\ \E response \in ResponsesTo(LastRequest) :
           /\ (/\ LastRequest.endpoint = "transaction/committed-details"
               /\ handle_response(response) = Return(None))
                  => Cardinality(DetailsQueries) <= MaxPolls
           /\ gateway' = [gateway EXCEPT !.response = response]
    /\ UNCHANGED write
    /\ WriteUnchanged

\* Gateway.network_configuration (lines 37-46), then build_transaction up to
\* its ledger_state request.
NetworkConfigurationReceived ==
    /\ write.pc = "network_configuration"
    /\ Answered
    /\ LET data == handle_response(gateway.response)
       IN  IF data.status = "raised"
           THEN write' = Ended(data) /\ UNCHANGED gateway
           ELSE IF data.value = None
           THEN /\ write' = Ended(Raise("TypeError", "'NoneType' object is not subscriptable"))
                /\ UNCHANGED gateway
           ELSE /\ gateway' = post(LedgerStateRequest)
                /\ write' = [write EXCEPT !.pc = "ledger_state"]
    /\ WriteUnchanged

\* Gateway.ledger_state (lines 19-35), the rest of build_transaction (lines
\* 134-160) and submit_transaction up to its post (lines 73-77).
LedgerStateReceived ==
    /\ write.pc = "ledger_state"
    /\ Answered
    /\ LET data == handle_response(gateway.response)
       IN  IF data.status = "raised"
           THEN write' = Ended(data) /\ UNCHANGED gateway
           ELSE IF data.value = None
           THEN /\ write' = Ended(Raise("TypeError", "'NoneType' object is not subscriptable"))
                /\ UNCHANGED gateway
           ELSE IF data.value.ledger_state.network \notin {"mainnet", "stokenet"}
           THEN /\ write' = Ended(Raise("UnboundLocalError", "network_id"))
                /\ UNCHANGED gateway
           ELSE \E nonce \in 0..MaxNonce :
                    LET transaction ==
                            NotarizedTransaction(write.op, data.value.ledger_state.epoch,
                                                 nonce)
                    IN  /\ gateway' = post(SubmitRequest(compile(transaction)))
                        /\ write' = [write EXCEPT !.pc = "submit",
                                                  !.payload = compile(transaction),
                                                  !.intent = intent_hash(transaction)]
    /\ WriteUnchanged

\* submit_transaction returns its data, which the operation drops, and
\* get_transaction_status issues its first query (lines 100-102).
SubmitReceived ==
    /\ write.pc = "submit"
    /\ Answered
    /\ LET data == handle_response(gateway.response)
       IN  IF data.status = "raised"
           THEN write' = Ended(data) /\ UNCHANGED gateway
           ELSE /\ gateway' = post(DetailsRequest(write.intent))
                /\ write' = [write EXCEPT !.pc = "status", !.details = None]
    /\ WriteUnchanged

\* get_transaction_status, line 102: details = await get_transaction_details
StatusDetailsReceived ==
    /\ write.pc = "status"
    /\ Answered
    /\ LET data == handle_response(gateway.response)
       IN  IF data.status = "raised"
           THEN write' = Ended(data)
           ELSE write' = [write EXCEPT !.pc = "status_test", !.details = data.value]
    /\ UNCHANGED gateway
    /\ WriteUnchanged

\* What a write operation other than create_margin_account returns once
\* get_transaction_status has returned the status: it falls off its end
\* (exchange.py, line 309 and the like), the awaited status unused.
operation_result_checked(status) ==
    IF status = "CommittedSuccess" THEN Return(None) ELSE Raise("Exception", status)

operation_result(status) == Return(None)

\* get_transaction_status, lines 101-104: the loop test, then the next query or
\* the return of the status; the operation then returns None, and
\* create_margin_account goes on to get_new_addresses (lines 91-93).
StatusLoopTest ==
    /\ write.pc = "status_test"
    /\ IF write.details = None
       THEN /\ gateway' = post(DetailsRequest(write.intent))
            /\ write' = [write EXCEPT !.pc = "status"]
       ELSE LET status == write.details.transaction.transaction_status
            IN  IF write.op = "create_margin_account"
                THEN /\ gateway' = post(DetailsRequest(write.intent))
                     /\ write' = [write EXCEPT !.pc = "addresses", !.status = status,
                                               !.details = None]
                ELSE /\ write' = [Ended(operation_result(status)) EXCEPT !.status = status]
                     /\ UNCHANGED gateway
    /\ WriteUnchanged

\* get_new_addresses, line 93: details = await get_transaction_details
AddressesDetailsReceived ==
    /\ write.pc = "addresses"
    /\ Answered
    /\ LET data == handle_response(gateway.response)
       IN  IF data.status = "raised"
           THEN write' = Ended(data)
           ELSE write' = [write EXCEPT !.pc = "addresses_test", !.details = data.value]
    /\ UNCHANGED gateway
    /\ WriteUnchanged

\* get_new_addresses, lines 92-97, and create_margin_account, lines 240-241.
AddressesLoopTest ==
    /\ write.pc = "addresses_test"
    /\ IF write.details = None
       THEN /\ gateway' = post(DetailsRequest(write.intent))
            /\ write' = [write EXCEPT !.pc = "addresses"]
       ELSE LET entities ==
                    write.details.transaction.receipt.state_updates.new_global_entities
                addresses == [i \in 1..Len(entities) |-> [value |-> entities[i].entity_address]]
            IN  /\ IF item(addresses, 0) = IndexError
                   THEN write' = Ended(Raise("IndexError", "list index out of range"))
                   ELSE write' = Ended(Return([address |-> item(addresses, 0).value]))
                /\ UNCHANGED gateway
    /\ WriteUnchanged

ClientStep ==
    \/ Call
    \/ NetworkConfigurationReceived
    \/ LedgerStateReceived
    \/ SubmitReceived
    \/ StatusDetailsReceived
    \/ StatusLoopTest
    \/ AddressesDetailsReceived
    \/ AddressesLoopTest

NextWrite ==
    \/ ClientStep
    \/ GatewayAnswers

SpecWrite == InitWrite /\ [][NextWrite]_vars

\* The event loop resumes the client once the response it awaits is there.
SpecWriteLive == SpecWrite /\ WF_vars(ClientStep)

(***************************************************************************)
(* Properties of the write operations.                                     *)
(***************************************************************************)
AwaitingDetails == write.pc \in {"status", "addresses"}
TestingDetails == write.pc \in {"status_test", "addresses_test"}
ClientMoves == write' # write
WriteReturned == write.pc = "done" /\ write.outcome.status = "returned"
WriteRaised == write.pc = "done" /\ write.outcome.status = "raised"

\* A 404 answer to a committed-details query is decoded as None and keeps the
\* call in its loop.
NotFoundIsNone ==
    (AwaitingDetails /\ Answered /\ gateway.response.status = NotFound /\ ClientMoves) =>
        /\ write'.details = None
        /\ write'.pc = IF write.pc = "status" THEN "status_test" ELSE "addresses_test"
        /\ write'.outcome = NotCalled

\* While details is None the same query, for the same intent, is issued again.
NoneReissuesQuery ==
    (TestingDetails /\ write.details = None /\ ClientMoves) =>
        /\ gateway'.requests = Append(gateway.requests, DetailsRequest(write.intent))
        /\ write'.intent = write.intent
        /\ write'.pc = IF write.pc = "status_test" THEN "status" ELSE "addresses"
        /\ write'.outcome = NotCalled

\* The status is returned only out of a response that was not None, and it is
\* that response's transaction_status.
StatusOnlyFromDetails ==
    (write.pc # "idle" /\ write.status = Unassigned /\ write'.status # Unassigned) =>
        /\ write.pc = "status_test"
        /\ write.details # None
        /\ write'.status = write.details.transaction.transaction_status

\* A response with status >= 400 other than 404 ends the polling with an error.
ErrorEndsPolling ==
    (/\ AwaitingDetails /\ Answered /\ ClientMoves
     /\ gateway.response.status >= ErrorFloor /\ gateway.response.status # NotFound) =>
        /\ write'.pc = "done"
        /\ write'.outcome.status = "raised"
        /\ gateway'.requests = gateway.requests

\* Once the gateway has answered with committed details, the call eventually
\* has that transaction's status (get_transaction_status) or has ended
\* (get_new_addresses).
CommittedEventuallyReturned ==
    \A details \in CommittedDetails :
        /\ (write.pc = "status" /\ gateway.response = Ok(details))
               ~> (write.status = details.transaction.transaction_status)
        /\ (write.pc = "addresses" /\ gateway.response = Ok(details))
               ~> (write.pc = "done")

\* C26: Gateway.get_transaction_status (and likewise get_new_addresses) issues
\* the committed-details query for the same intent again for as long as the
\* gateway answers 404 (decoded as None), however many queries it has made, and
\* returns only after a response that is not None; if the gateway answers with
\* committed details the call eventually returns that transaction's status; a
\* response with status >= 400 other than 404 ends the polling with an error.
C26_PollUntilCommitted ==
    /\ [][NotFoundIsNone]_vars
    /\ [][NoneReissuesQuery]_vars
    /\ [][StatusOnlyFromDetails]_vars
    /\ [][ErrorEndsPolling]_vars
    /\ CommittedEventuallyReturned

C26_Witness ==
    /\ WriteReturned
    /\ write.op = "add_collateral"
    /\ write.status = "CommittedSuccess"
    /\ Cardinality(DetailsQueries) = MaxPolls + 1
    /\ \A i \in DetailsQueries : gateway.requests[i] = DetailsRequest(write.intent)
    /\ gateway.response.status = 200

\* The positions in the request log of the requests to an endpoint.
RequestsTo(endpoint) ==
    {i \in 1..Len(gateway.requests) : gateway.requests[i].endpoint = endpoint}
Submissions == RequestsTo("transaction/submit")
Constructions == RequestsTo("transaction/construction")

\* The transaction a submitted payload compiles and a polled intent identifies.
SubmittedTransaction(i) == gateway.requests[i].body.notarized_transaction_hex.compiled
PolledTransaction(i) == gateway.requests[i].body.intent_hash.intent_hash_of

\* C27: every write operation of Exchange goes build_transaction ->
\* submit_transaction -> get_transaction_status: the transaction is submitted at
\* most once, after it was built, and exactly once in a call that polls or
\* returns; no status query precedes the submission; every polled intent is the
\* intent of the submitted payload; the operation returns only after the status
\* poll has returned; and create_margin_account queries the new addresses only
\* after the status poll and returns the first new address.
C27_WriteStepOrder ==
    write.pc # "idle" =>
        /\ Cardinality(Submissions) <= 1
        /\ \A i \in Submissions :
               /\ \E j \in Constructions : j < i
               /\ SubmittedTransaction(i).manifest = write.op
               /\ gateway.requests[i].body.notarized_transaction_hex = write.payload
        /\ \A i \in DetailsQueries :
               \E j \in Submissions :
                   /\ j < i
                   /\ PolledTransaction(i) = SubmittedTransaction(j)
        /\ (AwaitingDetails \/ TestingDetails \/ WriteReturned) =>
               /\ Cardinality(Submissions) = 1
               /\ DetailsQueries # {}
        /\ WriteReturned => write.status \in TransactionStatuses
        /\ write.pc \in {"addresses", "addresses_test"} =>
               /\ write.op = "create_margin_account"
               /\ write.status \in TransactionStatuses
        /\ (WriteReturned /\ write.op = "create_margin_account") =>
               /\ write.details # None
               /\ write.outcome.value.address =
                      write.details.transaction.receipt.state_updates
                           .new_global_entities[1].entity_address
        /\ (WriteReturned /\ write.op # "create_margin_account") =>
               write.outcome.value = None

C27_Witness ==
    /\ WriteReturned
    /\ write.op = "create_margin_account"
    /\ write.outcome.value.address = "component_a"
    /\ Cardinality(Submissions) = 1
    /\ Cardinality(DetailsQueries) = 3
    /\ \A i \in DetailsQueries : PolledTransaction(i) = write.payload.compiled
    /\ gateway.requests[1] = NetworkConfigurationRequest
    /\ gateway.requests[2] = LedgerStateRequest
    /\ gateway.requests[3] = SubmitRequest(write.payload)

\* The step of a write operation that has the committed details in hand.
CommittedDetailsInHand ==
    /\ write.pc = "status_test"
    /\ write.details # None
    /\ write.op # "create_margin_account"

OutcomeIgnored ==
    (CommittedDetailsInHand /\ ClientMoves) =>
        /\ write'.pc = "done"
        /\ write'.outcome = Return(None)
        /\ write'.status = write.details.transaction.transaction_status
        /\ gateway' = gateway

\* C28: once the gateway has returned committed details, add_collateral,
\* remove_collateral_request, margin_order_request, margin_order_tp_sl_request,
\* create_recovery_key and cancel_requests return None whatever
\* transaction_status is reported, a failed or rejected one included; a call
\* that raises has raised before it had any transaction status.
C28_CommittedFailureNotRaised ==
    /\ [][OutcomeIgnored]_vars
    /\ []((WriteRaised /\ write.op # "create_margin_account") => write.status = Unassigned)
    /\ []((write.pc = "done" /\ write.op # "create_margin_account"
           /\ write.status \in TransactionStatuses) => write.outcome = Return(None))

C28_Witness ==
    /\ WriteReturned
    /\ write.op = "margin_order_request"
    /\ write.status = "CommittedFailure"
    /\ write.details.transaction.transaction_status = "CommittedFailure"
    /\ write.outcome.value = None

C28_RejectedReached ==
    /\ WriteReturned
    /\ write.op = "cancel_requests"
    /\ write.status = "Rejected"

(***************************************************************************)
(* The oracle, and the read operations of Exchange that ask it for prices. *)
(***************************************************************************)
\* A price feed of the oracle.  Its symbol is kept as its first seven
\* characters and the rest, which is what symbol[7:] (oracle.py line 16) is.
Feed(id, head, rest) ==
    [id |-> id, attributes |-> [symbol |-> [head |-> head, rest |-> rest]]]
drop7(symbol) == symbol.rest

\* Oracle.get_crypto_feeds, lines 15-18: the first feed of the data whose
\* symbol matches, the loop breaking there.
MatchingFeeds(pair_id, data) ==
    {i \in 1..Len(data) : drop7(data[i].attributes.symbol) = pair_id}

feed_for_last_match(pair_id, data) ==
    data[CHOOSE i \in MatchingFeeds(pair_id, data) :
             \A j \in MatchingFeeds(pair_id, data) : j <= i]

feed_for(pair_id, data) ==
    data[CHOOSE i \in MatchingFeeds(pair_id, data) :
             \A j \in MatchingFeeds(pair_id, data) : i <= j]

Range(list) == {list[i] : i \in 1..Len(list)}

\* Oracle.get_crypto_feeds (oracle.py, lines 11-20)
get_crypto_feeds(pair_ids, data) ==
    [pair_id \in {p \in Range(pair_ids) : MatchingFeeds(p, data) # {}} |->
        feed_for(pair_id, data)]

\* Oracle.get_prices, line 24: feed id -> pair id, a later pair replacing an
\* earlier one under the same feed id.
feed_ids_of(pair_ids, feeds) ==
    LET found == {i \in 1..Len(pair_ids) : pair_ids[i] \in DOMAIN feeds}
        under(id) == {i \in found : feeds[pair_ids[i]].id = id}
    IN  [id \in {feeds[pair_id].id : pair_id \in DOMAIN feeds} |->
            pair_ids[CHOOSE i \in under(id) : \A j \in under(id) : j <= i]]

\* Oracle.get_prices, lines 31-33: price = sig * 10 ** exp
price_of(update) ==
    LET sig == int(update.price.price)
        exp == int(update.price.expo)
    IN  IF exp >= 0 THEN R(sig * Pow10(exp)) ELSE Frac(sig, Pow10(-exp))

\* Oracle.get_prices, lines 26-36: the price map built from the parsed updates,
\* a later update of a pair replacing an earlier one.
prices_of(feed_ids, parsed) ==
    LET unknown == {i \in 1..Len(parsed) : parsed[i].id \notin DOMAIN feed_ids}
        of(pair_id) == {i \in 1..Len(parsed) : feed_ids[parsed[i].id] = pair_id}
    IN  IF unknown # {}
        THEN Raise("KeyError", parsed[CHOOSE i \in unknown : \A j \in unknown : i <= j].id)
        ELSE Return([pair_id \in {feed_ids[parsed[i].id] : i \in 1..Len(parsed)} |->
                        price_of(parsed[CHOOSE i \in of(pair_id) :
                                            \A j \in of(pair_id) : j <= i])])

\* AccountDetails.get_pair_ids (types.py, lines 625-632)
get_pair_ids_of_positions(result) ==
    {item(result, 1).elements[i].fields[1].value :
         i \in 1..Len(item(result, 1).elements)}

get_pair_ids(result) ==
    {item(result, 1).elements[i].fields[1].value :
         i \in 1..Len(item(result, 1).elements)}
    \cup {item(result, 2).elements[i].fields[1].value :
              i \in 1..Len(item(result, 2).elements)}

\* The orders in which a Python set can be iterated.
Orders(set) ==
    {order \in [1..Cardinality(set) -> set] : Range(order) = set}

\* What the oracle can answer.
FeedLists ==
    LET btc_1 == Feed("feed_1", "Crypto.", "BTC/USD")
        btc_2 == Feed("feed_2", "Crypto.", "BTC/USD")
        eth == Feed("feed_3", "Crypto.", "ETH/USD")
        sol == Feed("feed_4", "Crypto.", "SOL/USD")
        gold == Feed("feed_5", "Metal.X", "AU/USD")
    IN  {<<>>, <<sol, gold>>, <<btc_1, sol>>, <<eth>>, <<btc_2, btc_1, eth>>,
         <<gold, btc_1, btc_2, sol, eth>>}

Quotes ==
    {[price |-> <<"1", "0", "0">>, expo |-> <<"0">>],
     [price |-> <<"5", "0", "0", "0">>, expo |-> <<"-", "2">>]}

FeedIdOrder == <<"feed_1", "feed_2", "feed_3", "feed_4", "feed_5">>

\* The parsed updates of a response: of some of the requested feeds, or of a
\* feed that was not requested.
Requested(ids) == LET asked(id) == id \in ids IN SelectSeq(FeedIdOrder, asked)
ParsedUpdates(requested) ==
    {[i \in 1..Len(Requested(ids)) |-> [id |-> Requested(ids)[i], price |-> quote]] :
         ids \in SUBSET requested, quote \in Quotes}
    \cup {<<[id |-> "feed_9", price |-> quote]>> : quote \in Quotes}

\* The account a preview returns: positions and collaterals, no requests.
PreviewedAccounts ==
    {<<Str(<<"1", "0", "0">>), List(positions), List(collaterals), Str(<<"4", "0">>),
       List(<<>>), List(<<>>)>> :
        positions \in SeqsUpTo(AccountPositionElems, MaxLen),
        collaterals \in SeqsUpTo(AccountCollateralElems, MaxLen)}

PreviewRequest == [api |-> "gateway", endpoint |-> "transaction/preview"]
FeedsRequest == [api |-> "oracle", endpoint |-> "price_feeds"]
UpdatesRequest(ids) == [api |-> "oracle", endpoint |-> "updates/price/latest", ids |-> ids]

StartQuery(op, pair_ids) ==
    [op |-> op, pc |-> "start", pair_ids |-> pair_ids, result |-> <<>>,
     data |-> <<>>, feed_ids |-> <<>>, parsed |-> <<>>, prices |-> <<>>,
     requests |-> <<>>, outcome |-> NotCalled]

QueryUnchanged ==
    UNCHANGED <<funding_args, funding_ret, overview_args, overview_ret,
                decode_args, decode_ret, write, gateway>>

InitQuery ==
    /\ funding_args = ScenarioArgs
    /\ funding_ret = NotCalled
    /\ overview_args = NoOverviewArgs
    /\ overview_ret = NotCalled
    /\ decode_args = NoDecodeArgs
    /\ decode_ret = NotCalled
    /\ write = NoWrite
    /\ gateway = NoGateway
    /\ query \in {StartQuery("Exchange.account_details", <<>>)}
                 \cup {StartQuery("Exchange.pair_details", pair_ids) :
                           pair_ids \in SeqsUpTo(Pairs, MaxLen)}

\* account_details, lines 101-111, and pair_details, lines 146-154: the
\* manifest is built and its preview awaited.
PreviewSent ==
    /\ query.pc = "start"
    /\ query' = [query EXCEPT !.pc = "preview", !.requests = <<PreviewRequest>>]
    /\ QueryUnchanged

\* account_details, lines 111-115: the result arrives, its pair ids are
\* collected and get_prices is called with them, which asks for the feeds.
AccountPreviewed ==
    /\ query.pc = "preview"
    /\ query.op = "Exchange.account_details"
    /\ \E result \in PreviewedAccounts :
           \E pair_ids \in Orders(get_pair_ids(result)) :
               query' = [query EXCEPT !.pc = "price_feeds",
                                      !.result = result,
                                      !.pair_ids = pair_ids,
                                      !.requests = Append(@, FeedsRequest)]
    /\ QueryUnchanged

\* pair_details, lines 154-155: the result arrives and get_prices is called
\* with the pair ids of the caller.
PairsPreviewed ==
    /\ query.pc = "preview"
    /\ query.op = "Exchange.pair_details"
    /\ \E elements \in SeqsUpTo(PairElems, MaxLen) :
           query' = [query EXCEPT !.pc = "price_feeds",
                                  !.result = elements,
                                  !.requests = Append(@, FeedsRequest)]
    /\ QueryUnchanged

\* get_crypto_feeds returns and get_prices asks for the latest updates of the
\* feeds it found (oracle.py, lines 13-28).
FeedsReceived ==
    /\ query.pc = "price_feeds"
    /\ \E data \in FeedLists :
           LET feeds == get_crypto_feeds(query.pair_ids, data)
               feed_ids == feed_ids_of(query.pair_ids, feeds)
           IN  query' = [query EXCEPT !.pc = "updates",
                                      !.data = data,
                                      !.feed_ids = feed_ids,
                                      !.requests = Append(@, UpdatesRequest(DOMAIN feed_ids))]
    /\ QueryUnchanged

\* get_prices builds its map and returns it (oracle.py, lines 28-36).
UpdatesReceived ==
    /\ query.pc = "updates"
    /\ \E parsed \in ParsedUpdates(DOMAIN query.feed_ids) :
           LET prices == prices_of(query.feed_ids, parsed)
           IN  IF prices.status = "raised"
               THEN query' = [query EXCEPT !.pc = "done", !.parsed = parsed,
                                           !.outcome = prices]
               ELSE query' = [query EXCEPT !.pc = "prices", !.parsed = parsed,
                                           !.prices = prices.value]
    /\ QueryUnchanged

\* account_details, line 117, and pair_details, lines 157-160: the valuation.
Valuation ==
    /\ query.pc = "prices"
    /\ query' = [query EXCEPT
                     !.pc = "done",
                     !.outcome =
                         IF query.op = "Exchange.account_details"
                         THEN AccountDetails_from_json(query.result, query.prices)
                         ELSE Exchange_pair_details(query.result, query.prices)]
    /\ QueryUnchanged

NextQuery ==
    \/ PreviewSent
    \/ AccountPreviewed
    \/ PairsPreviewed
    \/ FeedsReceived
    \/ UpdatesReceived
    \/ Valuation

SpecQuery == InitQuery /\ [][NextQuery]_vars

(***************************************************************************)
(* Properties of the oracle and of the read operations.                    *)
(***************************************************************************)
RequestedPairs == Range(query.pair_ids)
PricedPairs == DOMAIN query.prices

\* The updates of the response that are of the first feed matching the pair.
UpdatesOfFirstFeed(pair_id) ==
    LET first == CHOOSE i \in MatchingFeeds(pair_id, query.data) :
                     \A j \in MatchingFeeds(pair_id, query.data) : i <= j
    IN  {i \in 1..Len(query.parsed) : query.parsed[i].id = query.data[first].id}

PricesReturned ==
    /\ query.pc = "prices"
    /\ PricedPairs \subseteq RequestedPairs
    /\ \A pair_id \in RequestedPairs :
           /\ pair_id \in PricedPairs <=>
                  /\ MatchingFeeds(pair_id, query.data) # {}
                  /\ UpdatesOfFirstFeed(pair_id) # {}
           /\ pair_id \in PricedPairs =>
                  \E i \in UpdatesOfFirstFeed(pair_id) :
                      query.prices[pair_id] = price_of(query.parsed[i])

\* get_prices fails on an update of a feed it did not ask for, and on nothing
\* else: a pair without a feed or without an update is no error.
OmissionIsSilent ==
    (query.pc = "updates" /\ query' # query) =>
        /\ query'.requests = query.requests
        /\ query'.pc = "prices" <=>
               \A i \in 1..Len(query'.parsed) : query'.parsed[i].id \in DOMAIN query.feed_ids
        /\ query'.pc # "prices" =>
               /\ query'.pc = "done"
               /\ query'.outcome.status = "raised"

\* C30: the map Oracle.get_prices returns has only requested pair ids as keys;
\* a requested pair with no matching feed, or whose feed has no update in the
\* response, is left out without any error; a pair with several matching feeds
\* is priced from the first of them; so the map can lack pairs that
\* account_details and pair_details go on to look up.
C30_PricesSubsetOfRequested ==
    /\ [](query.pc \in {"prices", "done"} => PricedPairs \subseteq RequestedPairs)
    /\ [](query.pc = "prices" => PricesReturned)
    /\ [][OmissionIsSilent]_vars

\* A pair with two feeds and an update, a pair left out, and the lookup of the
\* pair left out failing in pair_details.
C30_Witness ==
    /\ query.pc = "done"
    /\ query.op = "Exchange.pair_details"
    /\ query.pair_ids = <<"BTC/USD", "ETH/USD">>
    /\ Cardinality(MatchingFeeds("BTC/USD", query.data)) = 2
    /\ MatchingFeeds("ETH/USD", query.data) # {}
    /\ PricedPairs = {"BTC/USD"}
    /\ query.prices["BTC/USD"] = R(50)
    /\ Len(query.result) = 2
    /\ query.outcome = Raise("KeyError", "ETH/USD")

\* The pairs of the positions and collaterals of the previewed account.
AccountPairs ==
    {PairOf(query.result[2].elements[i]) : i \in 1..Len(query.result[2].elements)}
    \cup {PairOf(query.result[3].elements[i]) : i \in 1..Len(query.result[3].elements)}

AccountQueried ==
    /\ query.op = "Exchange.account_details"
    /\ query.pc \in {"price_feeds", "updates", "prices", "done"}

\* With a price for every requested pair the valuation raises no KeyError.
PricedValuationFindsPrices ==
    (/\ query.op = "Exchange.account_details"
     /\ query.pc = "prices"
     /\ RequestedPairs \subseteq PricedPairs
     /\ query' # query) =>
        ~(query'.outcome.status = "raised" /\ query'.outcome.error = "KeyError")

\* C29: in Exchange.account_details the pair ids passed to the oracle are
\* exactly the pairs of the account's positions and collaterals, so every price
\* AccountDetails.from_json looks up is of a requested pair; the ledger result
\* is fetched before the prices are; and if the oracle returns a price for
\* every requested pair the valuation raises no missing-price error.
C29_RequestedPairsCoverLookups ==
    /\ [](AccountQueried =>
              /\ RequestedPairs = AccountPairs
              /\ Len(query.pair_ids) = Cardinality(AccountPairs)
              /\ query.requests[1] = PreviewRequest
              /\ \A i \in 1..Len(query.requests) :
                     query.requests[i].api = "oracle" => i > 1)
    /\ []((query.pc \in {"start", "preview"}) =>
              \A i \in 1..Len(query.requests) : query.requests[i].api # "oracle")
    /\ [][PricedValuationFindsPrices]_vars

C29_Witness ==
    /\ query.op = "Exchange.account_details"
    /\ query.pc = "done"
    /\ query.outcome.status = "returned"
    /\ Len(query.outcome.value.positions) = 1
    /\ Len(query.outcome.value.collaterals) = 1
    /\ query.outcome.value.positions[1].pair = "BTC/USD"
    /\ query.outcome.value.collaterals[1].pair = "ETH/USD"
    /\ RequestedPairs = {"BTC/USD", "ETH/USD"}
    /\ PricedPairs = RequestedPairs
    /\ Len(query.requests) = 3

====
